---- MODULE Spec2Model ----
(***************************************************************************)
(* The event store of NostrMarketMCP (src/src/database_service/database.py) *)
(* as a state machine: the SQLite table `events`, the aiosqlite connection  *)
(* of the Database object, and the coroutines that call its operations.     *)
(***************************************************************************)
EXTENDS Integers, Sequences, FiniteSets, Bags, TLC

(***************************************************************************)
(* Bounds of the model.                                                     *)
(***************************************************************************)
\* created_at ranges over 1..MaxTime
MaxTime == 2
\* the events table holds at most MaxRows rows
MaxRows == 2

(***************************************************************************)
(* Program constants.                                                       *)
(***************************************************************************)
KindProfile == 0
KindStall == 30017
KindProduct == 30018

Pubkeys == {"A", "B"}
Times == 1..MaxTime
Tasks == {"t1", "t2"}

(***************************************************************************)
(* Python values.  None and Optional[...] are a sequence of length 0 or 1.  *)
(***************************************************************************)
None == <<>>
Some(v) == <<v>>

\* Python truthiness of an Optional[str]: None and "" are falsy.
Truthy(opt) == opt # None /\ opt[1] # ""

(***************************************************************************)
(* Strings.  A str is a TLA+ string; Chars gives its characters, which is   *)
(* what str.replace and str.split work on.                                  *)
(***************************************************************************)
Chars ==
    [s \in {"", "A", "B", "p", "p/q", "nostr://", "profile", "catalog",
            "product", "stalls", "stall", "invalid", "Ann", " ann ",
            "Shirt", "Red", "Tee", "Rio", "Mug", "Hat", "Red cap",
            "production", "demo", "retail", "service", "business.type",
            "Red, zz", "zz tee", "ED", "rio", "mug", "hat", "zz",
            "ann", "hir", "CAP", "x", " "} |->
        CASE s = "" -> <<>>
          [] s = "A" -> <<"A">>
          [] s = "B" -> <<"B">>
          [] s = "p" -> <<"p">>
          [] s = "p/q" -> <<"p", "/", "q">>
          [] s = "nostr://" -> <<"n", "o", "s", "t", "r", ":", "/", "/">>
          [] s = "profile" -> <<"p", "r", "o", "f", "i", "l", "e">>
          [] s = "catalog" -> <<"c", "a", "t", "a", "l", "o", "g">>
          [] s = "product" -> <<"p", "r", "o", "d", "u", "c", "t">>
          [] s = "stalls" -> <<"s", "t", "a", "l", "l", "s">>
          [] s = "stall" -> <<"s", "t", "a", "l", "l">>
          [] s = "invalid" -> <<"i", "n", "v", "a", "l", "i", "d">>
          [] s = "Ann" -> <<"A", "n", "n">>
          [] s = " ann " -> <<" ", "a", "n", "n", " ">>
          [] s = "Shirt" -> <<"S", "h", "i", "r", "t">>
          [] s = "Red" -> <<"R", "e", "d">>
          [] s = "Tee" -> <<"T", "e", "e">>
          [] s = "Rio" -> <<"R", "i", "o">>
          [] s = "Mug" -> <<"M", "u", "g">>
          [] s = "Hat" -> <<"H", "a", "t">>
          [] s = "Red cap" -> <<"R", "e", "d", " ", "c", "a", "p">>
          [] s = "production" -> <<"p", "r", "o", "d", "u", "c", "t", "i", "o", "n">>
          [] s = "demo" -> <<"d", "e", "m", "o">>
          [] s = "retail" -> <<"r", "e", "t", "a", "i", "l">>
          [] s = "service" -> <<"s", "e", "r", "v", "i", "c", "e">>
          [] s = "business.type" -> <<"b", "u", "s", "i", "n", "e", "s", "s", ".", "t", "y", "p", "e">>
          [] s = "Red, zz" -> <<"R", "e", "d", ",", " ", "z", "z">>
          [] s = "zz tee" -> <<"z", "z", " ", "t", "e", "e">>
          [] s = "ED" -> <<"E", "D">>
          [] s = "rio" -> <<"r", "i", "o">>
          [] s = "mug" -> <<"m", "u", "g">>
          [] s = "hat" -> <<"h", "a", "t">>
          [] s = "zz" -> <<"z", "z">>
          [] s = "ann" -> <<"a", "n", "n">>
          [] s = "hir" -> <<"h", "i", "r">>
          [] s = "CAP" -> <<"C", "A", "P">>
          [] s = "x" -> <<"x">>
          [] s = " " -> <<" ">>]

\* str.replace(old, ""): every occurrence of old removed, left to right.
RECURSIVE StrRemoveAll(_, _)
StrRemoveAll(s, old) ==
    IF Len(s) < Len(old) \/ Len(old) = 0 THEN s
    ELSE IF SubSeq(s, 1, Len(old)) = old
         THEN StrRemoveAll(SubSeq(s, Len(old) + 1, Len(s)), old)
         ELSE <<Head(s)>> \o StrRemoveAll(Tail(s), old)

\* str.split(sep) for a one-character separator: "".split("/") is [""].
RECURSIVE StrSplit(_, _)
StrSplit(s, sep) ==
    IF \A i \in 1..Len(s) : s[i] # sep THEN <<s>>
    ELSE LET i == CHOOSE k \in 1..Len(s) :
                      s[k] = sep /\ \A j \in 1..(k - 1) : s[j] # sep
         IN  <<SubSeq(s, 1, i - 1)>> \o StrSplit(SubSeq(s, i + 1, Len(s)), sep)

\* str.lower(), character by character
LowerCase ==
    [c \in {"A", "B", "C", "D", "E", "F", "G", "H", "I", "J", "K", "L", "M",
            "N", "O", "P", "Q", "R", "S", "T", "U", "V", "W", "X",
            "Y", "Z"} |->
        CASE c = "A" -> "a"
          [] c = "B" -> "b"
          [] c = "C" -> "c"
          [] c = "D" -> "d"
          [] c = "E" -> "e"
          [] c = "F" -> "f"
          [] c = "G" -> "g"
          [] c = "H" -> "h"
          [] c = "I" -> "i"
          [] c = "J" -> "j"
          [] c = "K" -> "k"
          [] c = "L" -> "l"
          [] c = "M" -> "m"
          [] c = "N" -> "n"
          [] c = "O" -> "o"
          [] c = "P" -> "p"
          [] c = "Q" -> "q"
          [] c = "R" -> "r"
          [] c = "S" -> "s"
          [] c = "T" -> "t"
          [] c = "U" -> "u"
          [] c = "V" -> "v"
          [] c = "W" -> "w"
          [] c = "X" -> "x"
          [] c = "Y" -> "y"
          [] c = "Z" -> "z"]

StrLower(s) == [i \in DOMAIN s |-> IF s[i] \in DOMAIN LowerCase THEN LowerCase[s[i]] ELSE s[i]]

\* `sub in s`
StrContains(s, sub) ==
    \E i \in 0..(Len(s) - Len(sub)) : SubSeq(s, i + 1, i + Len(sub)) = sub

\* str.strip(): the blanks at both ends removed
RECURSIVE StrStrip(_)
StrStrip(s) ==
    IF s = <<>> THEN s
    ELSE IF Head(s) = " " THEN StrStrip(Tail(s))
    ELSE IF s[Len(s)] = " " THEN StrStrip(SubSeq(s, 1, Len(s) - 1))
    ELSE s

\* " ".join(strs)
RECURSIVE StrJoin(_)
StrJoin(strs) ==
    IF strs = <<>> THEN <<>>
    ELSE IF Len(strs) = 1 THEN strs[1]
    ELSE strs[1] \o <<" ">> \o StrJoin(Tail(strs))

\* [term.strip() for term in re.split(r"[,\s]+", query) if term.strip()]:
\* the maximal runs of characters other than a comma or a blank
RECURSIVE ReSplitTerms(_)
ReSplitTerms(s) ==
    LET sep(c) == c = "," \/ c = " "
    IN  IF s = <<>> THEN <<>>
        ELSE IF sep(Head(s)) THEN ReSplitTerms(Tail(s))
        ELSE LET n == IF \E k \in 1..Len(s) : sep(s[k])
                      THEN (CHOOSE k \in 1..Len(s) :
                                sep(s[k]) /\ \A j \in 1..(k - 1) : ~sep(s[j])) - 1
                      ELSE Len(s)
             IN  <<SubSeq(s, 1, n)>> \o ReSplitTerms(SubSeq(s, n + 1, Len(s)))

(***************************************************************************)
(* JSON.  json.dumps(tags) writes the tag list as text, here its tokens;    *)
(* json.loads reads it back.  Event content arrives as text already.        *)
(***************************************************************************)
TokOpen == <<"[">>
TokClose == <<"]">>
TokComma == <<",">>
TokStr(s) == <<"str", s>>

\* one tag, ["d", "p"]: its strings separated by commas
RECURSIVE JsonDumpsStrs(_)
JsonDumpsStrs(tag) ==
    IF tag = <<>> THEN <<>>
    ELSE IF Len(tag) = 1 THEN <<TokStr(tag[1])>>
    ELSE <<TokStr(tag[1]), TokComma>> \o JsonDumpsStrs(Tail(tag))

JsonDumpsTag(tag) == <<TokOpen>> \o JsonDumpsStrs(tag) \o <<TokClose>>

RECURSIVE JsonDumpsItems(_)
JsonDumpsItems(tags) ==
    IF tags = <<>> THEN <<>>
    ELSE IF Len(tags) = 1 THEN JsonDumpsTag(tags[1])
    ELSE JsonDumpsTag(tags[1]) \o <<TokComma>> \o JsonDumpsItems(Tail(tags))

JsonDumpsTags(tags) == <<TokOpen>> \o JsonDumpsItems(tags) \o <<TokClose>>

\* the strings between two brackets of one tag
RECURSIVE JsonLoadsStrs(_)
JsonLoadsStrs(toks) ==
    IF toks = <<>> THEN <<>>
    ELSE IF Head(toks) = TokComma THEN JsonLoadsStrs(Tail(toks))
    ELSE <<Head(toks)[2]>> \o JsonLoadsStrs(Tail(toks))

\* the tags between the outer brackets
RECURSIVE JsonLoadsItems(_)
JsonLoadsItems(toks) ==
    IF toks = <<>> THEN <<>>
    ELSE IF Head(toks) = TokComma THEN JsonLoadsItems(Tail(toks))
    ELSE LET j == CHOOSE k \in 1..Len(toks) :
                      toks[k] = TokClose /\ \A i \in 1..(k - 1) : toks[i] # TokClose
         IN  <<JsonLoadsStrs(SubSeq(toks, 2, j - 1))>>
                 \o JsonLoadsItems(SubSeq(toks, j + 1, Len(toks)))

JsonLoadsTags(text) == JsonLoadsItems(SubSeq(text, 2, Len(text) - 1))

\* The content texts callers store, and what json.loads makes of each:
\* a dict (a function from keys to values) or a JSONDecodeError.
ContentAnn == "{\"name\": \"Ann\"}"
ContentShirt == "{\"name\": \"Shirt\"}"
Contents == {ContentAnn, ContentShirt}

\* Further content texts: profiles with the fields the searches read, a
\* product with a description, a text that is not JSON, and the JSON text
\* `null`, which json.loads reads as None.
ContentRed ==
    "{\"name\": \"Red\", \"about\": \"Tee\", \"city\": \"Rio\", \"hashtags\": [\"Mug\"]}"
ContentAnnProd == "{\"display_name\": \"Ann\", \"environment\": \"production\"}"
ContentAnnDemo == "{\"name\": \" ann \", \"environment\": \"demo\"}"
ContentCap == "{\"name\": \"Hat\", \"description\": \"Red cap\"}"
ContentBad == "{oops"
ContentNull == "null"

\* json.dumps(content_fields) of upsert_profile, for the name and the
\* created_at of the profile; the other fields are those of a retail
\* business that fills in nothing else
ProfileTexts ==
    {
     <<"Ann", 1, "{\"about\": \"\", \"banner\": \"\", \"bot\": false, \"city\": \"\", \"country\": \"\", \"created_at\": 1, \"display_name\": \"\", \"email\": \"\", \"hashtags\": [], \"locations\": [], \"name\": \"Ann\", \"namespace\": \"business.type\", \"nip05\": \"\", \"nip05_validated\": false, \"picture\": \"\", \"phone\": \"\", \"profile_type\": \"retail\", \"profile_url\": \"\", \"state\": \"\", \"street\": \"\", \"website\": \"\", \"zip_code\": \"\", \"lud16\": \"\"}">>,
     <<"Ann", 2, "{\"about\": \"\", \"banner\": \"\", \"bot\": false, \"city\": \"\", \"country\": \"\", \"created_at\": 2, \"display_name\": \"\", \"email\": \"\", \"hashtags\": [], \"locations\": [], \"name\": \"Ann\", \"namespace\": \"business.type\", \"nip05\": \"\", \"nip05_validated\": false, \"picture\": \"\", \"phone\": \"\", \"profile_type\": \"retail\", \"profile_url\": \"\", \"state\": \"\", \"street\": \"\", \"website\": \"\", \"zip_code\": \"\", \"lud16\": \"\"}">>,
     <<"Ann", 3, "{\"about\": \"\", \"banner\": \"\", \"bot\": false, \"city\": \"\", \"country\": \"\", \"created_at\": 3, \"display_name\": \"\", \"email\": \"\", \"hashtags\": [], \"locations\": [], \"name\": \"Ann\", \"namespace\": \"business.type\", \"nip05\": \"\", \"nip05_validated\": false, \"picture\": \"\", \"phone\": \"\", \"profile_type\": \"retail\", \"profile_url\": \"\", \"state\": \"\", \"street\": \"\", \"website\": \"\", \"zip_code\": \"\", \"lud16\": \"\"}">>,
     <<"Ann", 4, "{\"about\": \"\", \"banner\": \"\", \"bot\": false, \"city\": \"\", \"country\": \"\", \"created_at\": 4, \"display_name\": \"\", \"email\": \"\", \"hashtags\": [], \"locations\": [], \"name\": \"Ann\", \"namespace\": \"business.type\", \"nip05\": \"\", \"nip05_validated\": false, \"picture\": \"\", \"phone\": \"\", \"profile_type\": \"retail\", \"profile_url\": \"\", \"state\": \"\", \"street\": \"\", \"website\": \"\", \"zip_code\": \"\", \"lud16\": \"\"}">>,
     <<"Red", 1, "{\"about\": \"\", \"banner\": \"\", \"bot\": false, \"city\": \"\", \"country\": \"\", \"created_at\": 1, \"display_name\": \"\", \"email\": \"\", \"hashtags\": [], \"locations\": [], \"name\": \"Red\", \"namespace\": \"business.type\", \"nip05\": \"\", \"nip05_validated\": false, \"picture\": \"\", \"phone\": \"\", \"profile_type\": \"retail\", \"profile_url\": \"\", \"state\": \"\", \"street\": \"\", \"website\": \"\", \"zip_code\": \"\", \"lud16\": \"\"}">>,
     <<"Red", 2, "{\"about\": \"\", \"banner\": \"\", \"bot\": false, \"city\": \"\", \"country\": \"\", \"created_at\": 2, \"display_name\": \"\", \"email\": \"\", \"hashtags\": [], \"locations\": [], \"name\": \"Red\", \"namespace\": \"business.type\", \"nip05\": \"\", \"nip05_validated\": false, \"picture\": \"\", \"phone\": \"\", \"profile_type\": \"retail\", \"profile_url\": \"\", \"state\": \"\", \"street\": \"\", \"website\": \"\", \"zip_code\": \"\", \"lud16\": \"\"}">>,
     <<"Red", 3, "{\"about\": \"\", \"banner\": \"\", \"bot\": false, \"city\": \"\", \"country\": \"\", \"created_at\": 3, \"display_name\": \"\", \"email\": \"\", \"hashtags\": [], \"locations\": [], \"name\": \"Red\", \"namespace\": \"business.type\", \"nip05\": \"\", \"nip05_validated\": false, \"picture\": \"\", \"phone\": \"\", \"profile_type\": \"retail\", \"profile_url\": \"\", \"state\": \"\", \"street\": \"\", \"website\": \"\", \"zip_code\": \"\", \"lud16\": \"\"}">>,
     <<"Red", 4, "{\"about\": \"\", \"banner\": \"\", \"bot\": false, \"city\": \"\", \"country\": \"\", \"created_at\": 4, \"display_name\": \"\", \"email\": \"\", \"hashtags\": [], \"locations\": [], \"name\": \"Red\", \"namespace\": \"business.type\", \"nip05\": \"\", \"nip05_validated\": false, \"picture\": \"\", \"phone\": \"\", \"profile_type\": \"retail\", \"profile_url\": \"\", \"state\": \"\", \"street\": \"\", \"website\": \"\", \"zip_code\": \"\", \"lud16\": \"\"}">>}

JsonDumpsProfile(name, created_at) ==
    (CHOOSE e \in ProfileTexts : e[1] = name /\ e[2] = created_at)[3]

\* json.loads of such a text
JsonLoadsProfile(text) ==
    LET e == CHOOSE e \in ProfileTexts : e[3] = text
    IN  [about |-> "", banner |-> "", bot |-> FALSE, city |-> "", country |-> "",
         created_at |-> e[2], display_name |-> "", email |-> "", hashtags |-> <<>>,
         locations |-> <<>>, name |-> e[1], namespace |-> "business.type",
         nip05 |-> "", nip05_validated |-> FALSE, picture |-> "", phone |-> "",
         profile_type |-> "retail", profile_url |-> "", state |-> "", street |-> "",
         website |-> "", zip_code |-> "", lud16 |-> ""]

JsonLoads(text) ==
    CASE text = ContentAnn -> [ok |-> TRUE, val |-> [name |-> "Ann"]]
      [] text = ContentShirt -> [ok |-> TRUE, val |-> [name |-> "Shirt"]]
      [] text = ContentRed ->
            [ok |-> TRUE,
             val |-> [name |-> "Red", about |-> "Tee", city |-> "Rio",
                      hashtags |-> <<"Mug">>]]
      [] text = ContentAnnProd ->
            [ok |-> TRUE, val |-> [display_name |-> "Ann", environment |-> "production"]]
      [] text = ContentAnnDemo ->
            [ok |-> TRUE, val |-> [name |-> " ann ", environment |-> "demo"]]
      [] text = ContentCap ->
            [ok |-> TRUE, val |-> [name |-> "Hat", description |-> "Red cap"]]
      [] text = ContentNull -> [ok |-> TRUE, val |-> None]
      [] \E e \in ProfileTexts : e[3] = text ->
            [ok |-> TRUE, val |-> JsonLoadsProfile(text)]
      [] OTHER -> [ok |-> FALSE, val |-> "JSONDecodeError"]

(***************************************************************************)
(* The storage engine.  The table is a bag of rows: SQLite keeps a rowid    *)
(* table, so two equal rows can coexist, and promises no order of its own.  *)
(***************************************************************************)
\* PRIMARY KEY (kind, pubkey, d_tag) of a rowid table: d_tag may be NULL,
\* and a NULL never equals anything in a uniqueness check, another NULL
\* included.
SqlSameKey(r, n) ==
    /\ r.kind = n.kind
    /\ r.pubkey = n.pubkey
    /\ r.d_tag # None
    /\ n.d_tag # None
    /\ r.d_tag = n.d_tag

SqlConflicts(table, n) == {r \in BagToSet(table) : SqlSameKey(r, n)}

\* DO UPDATE SET with the comparison turned round: the older event wins.
DoUpdateSetOlderWins(old, n) ==
    [old EXCEPT
        !.id = IF old.created_at > n.created_at THEN n.id ELSE old.id,
        !.content = IF old.created_at > n.created_at THEN n.content ELSE old.content,
        !.created_at = IF old.created_at > n.created_at THEN n.created_at
                       ELSE old.created_at,
        !.tags = IF old.created_at > n.created_at THEN n.tags ELSE old.tags]

\* DO UPDATE SET with the assignments applied one after the other: the CASE
\* of tags reads the created_at that was just written.
DoUpdateSetInTurn(old, n) ==
    LET newer == old.created_at < n.created_at
        created_at == IF newer THEN n.created_at ELSE old.created_at
    IN  [old EXCEPT
            !.id = IF newer THEN n.id ELSE old.id,
            !.content = IF newer THEN n.content ELSE old.content,
            !.created_at = created_at,
            !.tags = IF created_at < n.created_at THEN n.tags ELSE old.tags]

\* DO UPDATE SET ...: every CASE reads the row as it was before the update.
DoUpdateSet(old, n) ==
    [old EXCEPT
        !.id = IF old.created_at < n.created_at THEN n.id ELSE old.id,
        !.content = IF old.created_at < n.created_at THEN n.content ELSE old.content,
        !.created_at = IF old.created_at < n.created_at THEN n.created_at
                       ELSE old.created_at,
        !.tags = IF old.created_at < n.created_at THEN n.tags ELSE old.tags]

SqlDelete(table, rows) ==
    [r \in BagToSet(table) \ rows |-> CopiesIn(r, table)]

\* SQL_INSERT_EVENT
SqlInsertEvent(table, n) ==
    LET hit == SqlConflicts(table, n)
    IN  IF hit = {} THEN table (+) SetToBag({n})
        ELSE LET old == CHOOSE r \in hit : TRUE
             IN  IF old.d_tag # None
                 THEN SqlDelete(table, {old}) (+) SetToBag({DoUpdateSet(old, n)})
                 ELSE table

\* SQL_INSERT_EVENT_NO_D_TAG
SqlInsertOrReplace(table, n) ==
    SqlDelete(table, SqlConflicts(table, n)) (+) SetToBag({n})

(***************************************************************************)
(* upsert_event                                                             *)
(***************************************************************************)
\* for tag in tags: if len(tag) >= 2 and tag[0] == "d": d_tag = tag[1]; break
RECURSIVE ExtractDTag(_)
ExtractDTag(tags) ==
    IF tags = <<>> THEN None
    ELSE IF Len(Head(tags)) >= 2 /\ Head(tags)[1] = "d" THEN Some(Head(tags)[2])
    ELSE ExtractDTag(Tail(tags))

EventRow(c, d_tag) ==
    [id |-> c.id, pubkey |-> c.pubkey, kind |-> c.kind, content |-> c.content,
     created_at |-> c.created_at, d_tag |-> d_tag, tags |-> JsonDumpsTags(c.tags)]

\* the statement upsert_event executes for the call c
UpsertStatement(table, c) ==
    LET d_tag == ExtractDTag(c.tags)
    IN  IF Truthy(d_tag)
        THEN SqlInsertEvent(table, EventRow(c, d_tag))
        ELSE SqlInsertOrReplace(table, EventRow(c, None))

(***************************************************************************)
(* The calls upsert_event is given.                                         *)
(***************************************************************************)
TagDP == <<"d", "p">>
TagDPQ == <<"d", "p/q">>
TagDEmpty == <<"d", "">>
TagTX == <<"t", "x">>

\* A profile (kind 0) is a plain replaceable event and carries no d tag; a
\* product (kind 30018) is parameterized and carries one: "p", "p/q" or "".
KindTags ==
    {<<KindProfile, <<>> >>, <<KindProduct, <<TagDP>> >>,
     <<KindProduct, <<TagDPQ>> >>, <<KindProduct, <<TagDEmpty>> >>}

\* An event's id is derived from what it carries: each payload has its id,
\* its content and the tags it carries besides the d tag.
Payloads ==
    {[id |-> "e1", content |-> ContentAnn, more |-> <<>>],
     [id |-> "e2", content |-> ContentShirt, more |-> <<TagTX>>]}

Calls ==
    {[id |-> p.id, pubkey |-> k, kind |-> kt[1], content |-> p.content,
      created_at |-> ts, tags |-> kt[2] \o p.more] :
        p \in Payloads, k \in Pubkeys, kt \in KindTags, ts \in Times}

\* The identity key of a call: (kind, author, discriminator), the
\* discriminator being the first d tag's value, absent when there is none.
IdentityKey(c) == <<c.kind, c.pubkey, ExtractDTag(c.tags)>>

IdentityKeys == {IdentityKey(c) : c \in Calls}

(***************************************************************************)
(* Readers.  ORDER BY created_at DESC leaves the order of rows with equal   *)
(* created_at to the engine: every such order is a possible result.         *)
(***************************************************************************)
SqlSelect(table, where) ==
    [r \in BagToSet(table) \cap where |-> CopiesIn(r, table)]

\* the rows of a bag in every order that is descending in created_at
OrderByCreatedAtDesc(bag) ==
    LET rows == BagToSet(bag)
    IN  {s \in [1..BagCardinality(bag) -> rows] :
            /\ \A r \in rows : Cardinality({i \in DOMAIN s : s[i] = r}) = CopiesIn(r, bag)
            /\ \A i, j \in DOMAIN s : i < j => s[i].created_at >= s[j].created_at}

DictSet(d, k, v) == [x \in DOMAIN d \cup {k} |-> IF x = k THEN v ELSE d[x]]

BusinessTypes == <<"retail", "restaurant", "service", "business", "entertainment", "other">>

InBusinessTypes(s) == \E i \in DOMAIN BusinessTypes : BusinessTypes[i] = s

\* for tag in tags: if len(tag) >= 2 and tag[0] == "l" and tag[1] in [...]:
\*     business_type = tag[1]; break
RECURSIVE ExtractBusinessType(_)
ExtractBusinessType(tags) ==
    IF tags = <<>> THEN None
    ELSE IF Len(Head(tags)) >= 2 /\ Head(tags)[1] = "l" /\ InBusinessTypes(Head(tags)[2])
         THEN Some(Head(tags)[2])
    ELSE ExtractBusinessType(Tail(tags))

\* json.loads of every row's content, in order; one decode error fails all
RECURSIVE LoadContents(_)
LoadContents(rows) ==
    IF rows = <<>> THEN [ok |-> TRUE, val |-> <<>>]
    ELSE LET head == JsonLoads(Head(rows).content)
             rest == LoadContents(Tail(rows))
         IN  IF head.ok /\ rest.ok
             THEN [ok |-> TRUE, val |-> <<head.val>> \o rest.val]
             ELSE [ok |-> FALSE, val |-> "JSONDecodeError"]

RECURSIVE LoadStalls(_)
LoadStalls(rows) ==
    IF rows = <<>> THEN [ok |-> TRUE, val |-> <<>>]
    ELSE LET head == JsonLoads(Head(rows).content)
             rest == LoadStalls(Tail(rows))
         IN  IF head.ok /\ rest.ok
             THEN [ok |-> TRUE,
                   val |-> <<DictSet(DictSet(head.val, "d_tag", Head(rows).d_tag),
                                     "created_at", Head(rows).created_at)>> \o rest.val]
             ELSE [ok |-> FALSE, val |-> "JSONDecodeError"]

\* `except (sqlite3.Error, json.JSONDecodeError): return None`
LoadedOrNone(loaded) == IF loaded.ok THEN Some(loaded.val) ELSE None

\* the same SELECT, with `if not row: raise ResourceNotFound()` in place of
\* `if not row: return None`
SelectOneOrRaise(table, kind, pubkey, d_tag) ==
    LET found == {r \in BagToSet(table) :
                     /\ r.kind = kind
                     /\ Chars[r.pubkey] = pubkey
                     /\ r.d_tag # None
                     /\ Chars[r.d_tag[1]] = d_tag}
    IN  IF found = {} THEN {Some("ResourceNotFound")}
        ELSE {LoadedOrNone(JsonLoads(r.content)) : r \in found}

\* SELECT content ... WHERE kind = ? AND pubkey = ? AND d_tag = ?, fetchone()
SelectOne(table, kind, pubkey, d_tag) ==
    LET found == {r \in BagToSet(table) :
                     /\ r.kind = kind
                     /\ Chars[r.pubkey] = pubkey
                     /\ r.d_tag # None
                     /\ Chars[r.d_tag[1]] = d_tag}
    IN  IF found = {} THEN {None}
        ELSE {LoadedOrNone(JsonLoads(r.content)) : r \in found}

SelectAll(table, kind, pubkey) ==
    OrderByCreatedAtDesc(
        SqlSelect(table, {r \in BagToSet(table) :
                             r.kind = kind /\ Chars[r.pubkey] = pubkey}))

\* get_resource_data after its guard: the values it can return for the URI
\* (a str, given by its characters); None is Python's None.
ResourceData(table, resource_uri) ==
    LET parts == StrSplit(StrRemoveAll(resource_uri, Chars["nostr://"]), "/")
    IN  IF Len(parts) < 2 THEN {None}
        ELSE
        LET pubkey == parts[1]
            resource_type == parts[2]
        IN  IF resource_type = Chars["profile"] THEN
                LET rows == SelectAll(table, KindProfile, pubkey)
                IN  {IF s = <<>> THEN None
                     ELSE LET row == s[1]
                              loaded == JsonLoads(row.content)
                          IN  IF ~loaded.ok THEN None
                              ELSE Some(DictSet(
                                       DictSet(loaded.val, "created_at", row.created_at),
                                       "business_type",
                                       ExtractBusinessType(JsonLoadsTags(row.tags)))) :
                     s \in rows}
            ELSE IF resource_type = Chars["catalog"] THEN
                {LET loaded == LoadContents(s)
                 IN  IF loaded.ok THEN Some([products |-> loaded.val]) ELSE None :
                 s \in SelectAll(table, KindProduct, pubkey)}
            ELSE IF resource_type = Chars["product"] /\ Len(parts) >= 3 THEN
                SelectOne(table, KindProduct, pubkey, parts[3])
            ELSE IF resource_type = Chars["stalls"] THEN
                {LET loaded == LoadStalls(s)
                 IN  IF loaded.ok THEN Some([stalls |-> loaded.val]) ELSE None :
                 s \in SelectAll(table, KindStall, pubkey)}
            ELSE IF resource_type = Chars["stall"] /\ Len(parts) >= 3 THEN
                SelectOne(table, KindStall, pubkey, parts[3])
            ELSE {None}

\* get_resource_rows after its guard: (id, content, created_at, tags) tuples
ResourceRows(table, kind, pubkey, d_tag) ==
    LET bag == IF Truthy(d_tag)
               THEN SqlSelect(table, {r \in BagToSet(table) :
                                        /\ r.kind = kind
                                        /\ r.pubkey = pubkey
                                        /\ r.d_tag = d_tag})
               ELSE SqlSelect(table, {r \in BagToSet(table) :
                                        r.kind = kind /\ r.pubkey = pubkey})
    IN  {[i \in DOMAIN s |-> <<s[i].id, s[i].content, s[i].created_at, s[i].tags>>] :
            s \in OrderByCreatedAtDesc(bag)}

(***************************************************************************)
(* Searches and lists.  Each scans the rows of one kind in descending       *)
(* created_at and gives a list, or raises what its `except` clauses do not  *)
(* catch: [ok |-> TRUE, val |-> list] or [ok |-> FALSE, val |-> exception]. *)
(***************************************************************************)
\* dict.get(key, default)
DictGet(d, key, default) == IF key \in DOMAIN d THEN d[key] ELSE default

\* SELECT ... FROM events WHERE kind = ? ORDER BY created_at DESC
SelectKind(table, kind) ==
    OrderByCreatedAtDesc(SqlSelect(table, {r \in BagToSet(table) : r.kind = kind}))

\* str(profile_data.get(key, "")).lower()
FieldText(d, key) == StrLower(Chars[DictGet(d, key, "")])

\* " ".join(str(tag).lower() for tag in hashtags if tag)
HashtagsText(d) ==
    LET hashtags == DictGet(d, "hashtags", <<>>)
    IN  StrJoin([i \in DOMAIN hashtags |-> StrLower(Chars[hashtags[i]])])

\* the "t" tags of the event: " ".join(str(tag[1]).lower() ...)
RECURSIVE EventHashtags(_)
EventHashtags(tags) ==
    IF tags = <<>> THEN <<>>
    ELSE IF Len(Head(tags)) >= 2 /\ Head(tags)[1] = "t"
         THEN <<StrLower(Chars[Head(tags)[2]])>> \o EventHashtags(Tail(tags))
    ELSE EventHashtags(Tail(tags))

AddressKeys == <<"country", "city", "state", "zip_code", "street">>

\* searchable_text of search_profiles
SearchableText(d, tags) ==
    StrJoin(<<FieldText(d, "name"), FieldText(d, "display_name"),
              FieldText(d, "about"), FieldText(d, "nip05")>>
            \o [i \in DOMAIN AddressKeys |-> FieldText(d, AddressKeys[i])]
            \o <<HashtagsText(d), StrJoin(EventHashtags(tags))>>)

\* the dict search_profiles appends for a row
ProfileItem(row, d) ==
    LET tags == JsonLoadsTags(row.tags)
    IN  DictSet(DictSet(DictSet(d, "pubkey", row.pubkey),
                        "business_type", ExtractBusinessType(tags)),
                "tags", tags)

\* the loop of search_profiles over the rows: a row whose content is not
\* JSON is passed over; one whose content is JSON but no dict raises
\* AttributeError at profile_data.get, which no except clause catches
RECURSIVE ScanProfiles(_, _)
ScanProfiles(rows, query_terms) ==
    IF rows = <<>> THEN [ok |-> TRUE, val |-> <<>>]
    ELSE LET row == Head(rows)
             loaded == JsonLoads(row.content)
             rest == ScanProfiles(Tail(rows), query_terms)
         IN  IF ~loaded.ok THEN rest
             ELSE IF loaded.val = None THEN [ok |-> FALSE, val |-> "AttributeError"]
             ELSE IF ~rest.ok THEN rest
             ELSE IF \E i \in DOMAIN query_terms :
                        StrContains(SearchableText(loaded.val, JsonLoadsTags(row.tags)),
                                    query_terms[i])
                  THEN [ok |-> TRUE, val |-> <<ProfileItem(row, loaded.val)>> \o rest.val]
             ELSE rest

\* search_profiles after its guard: its possible outcomes
SearchProfilesData(table, query) ==
    {ScanProfiles(rows, ReSplitTerms(StrLower(Chars[query]))) :
        rows \in SelectKind(table, KindProfile)}

\* search_business_profiles reads the tags to the end: the flag
\* ["L", "business.type"], and the last "l" tag with a known value
HasBusinessTypeTag(tags) ==
    \E i \in DOMAIN tags :
        Len(tags[i]) >= 2 /\ tags[i][1] = "L" /\ tags[i][2] = "business.type"

RECURSIVE LastBusinessType(_)
LastBusinessType(tags) ==
    IF tags = <<>> THEN None
    ELSE LET tag == tags[Len(tags)]
         IN  IF Len(tag) >= 2 /\ tag[1] = "l" /\ InBusinessTypes(tag[2])
             THEN Some(tag[2])
             ELSE LastBusinessType(SubSeq(tags, 1, Len(tags) - 1))

\* `query in name or query in display_name or ...` of search_business_profiles
BusinessQueryMatches(d, profile_business_type, query) ==
    \/ \E key \in {"name", "display_name", "about", "nip05", "country", "city",
                   "state", "zip_code", "street"} :
          StrContains(FieldText(d, key), query)
    \/ StrContains(StrLower(Chars[profile_business_type]), query)
    \/ StrContains(HashtagsText(d), query)

\* the loop of search_business_profiles: a row with content that is JSON
\* but no dict, once it has passed the tests on its tags, raises
\* AttributeError at profile_data.get when there is a query and TypeError at
\* profile_data["pubkey"] = pubkey when there is none
RECURSIVE ScanBusinessProfiles(_, _, _)
ScanBusinessProfiles(rows, query, business_type) ==
    IF rows = <<>> THEN [ok |-> TRUE, val |-> <<>>]
    ELSE LET row == Head(rows)
             loaded == JsonLoads(row.content)
             tags == JsonLoadsTags(row.tags)
             profile_business_type == LastBusinessType(tags)
             rest == ScanBusinessProfiles(Tail(rows), query, business_type)
         IN  IF ~loaded.ok THEN rest
             ELSE IF ~HasBusinessTypeTag(tags) \/ ~Truthy(profile_business_type) THEN rest
             ELSE IF Truthy(business_type) /\ profile_business_type # business_type
                  THEN rest
             ELSE IF loaded.val = None
                  THEN [ok |-> FALSE,
                        val |-> IF query # <<>> THEN "AttributeError" ELSE "TypeError"]
             ELSE IF ~rest.ok THEN rest
             ELSE IF query # <<>>
                     /\ ~BusinessQueryMatches(loaded.val, profile_business_type[1], query)
                  THEN rest
             ELSE [ok |-> TRUE,
                   val |-> <<DictSet(DictSet(DictSet(loaded.val, "pubkey", row.pubkey),
                                             "business_type", profile_business_type),
                                     "tags", tags)>> \o rest.val]

\* search_business_profiles after its guard: its possible outcomes
SearchBusinessProfilesData(table, query, business_type) ==
    {ScanBusinessProfiles(rows, StrLower(Chars[query]), business_type) :
        rows \in SelectKind(table, KindProfile)}

\* LIMIT ? OFFSET ? of SQL, and seq[offset:offset + limit] of Python, for
\* limit >= 0 and offset >= 0
Slice(seq, limit, offset) ==
    SubSeq(seq, offset + 1, IF offset + limit < Len(seq) THEN offset + limit ELSE Len(seq))

\* the loop of list_profiles over the rows the statement returned: a row
\* whose content is not JSON is passed over; one whose content is JSON but
\* no dict raises TypeError at profile_data["pubkey"] = pubkey
RECURSIVE ScanListProfiles(_)
ScanListProfiles(rows) ==
    IF rows = <<>> THEN [ok |-> TRUE, val |-> <<>>]
    ELSE LET row == Head(rows)
             loaded == JsonLoads(row.content)
             rest == ScanListProfiles(Tail(rows))
         IN  IF ~loaded.ok THEN rest
             ELSE IF loaded.val = None THEN [ok |-> FALSE, val |-> "TypeError"]
             ELSE IF ~rest.ok THEN rest
             ELSE [ok |-> TRUE,
                   val |-> <<DictSet(ProfileItem(row, loaded.val),
                                     "created_at", row.created_at)>> \o rest.val]

\* list_profiles after its guard: LIMIT and OFFSET are part of the
\* statement, the loop runs over the rows of the page
ListProfilesData(table, limit, offset) ==
    {ScanListProfiles(Slice(rows, limit, offset)) : rows \in SelectKind(table, KindProfile)}

\* the dict search_products and list_products append for a row
ProductItem(row, d) ==
    DictSet(DictSet(DictSet(DictSet(d, "pubkey", row.pubkey), "d_tag", row.d_tag),
                    "created_at", row.created_at),
            "tags", JsonLoadsTags(row.tags))

\* the loop of search_products over the rows: a row whose content is not
\* JSON is passed over; one whose content is JSON but no dict raises
\* AttributeError at product_data.get, which no except clause catches
RECURSIVE ScanProducts(_, _)
ScanProducts(rows, query) ==
    IF rows = <<>> THEN [ok |-> TRUE, val |-> <<>>]
    ELSE LET row == Head(rows)
             loaded == JsonLoads(row.content)
             rest == ScanProducts(Tail(rows), query)
         IN  IF ~loaded.ok THEN rest
             ELSE IF loaded.val = None THEN [ok |-> FALSE, val |-> "AttributeError"]
             ELSE IF ~rest.ok THEN rest
             ELSE IF \/ StrContains(FieldText(loaded.val, "name"), query)
                     \/ StrContains(FieldText(loaded.val, "description"), query)
                  THEN [ok |-> TRUE, val |-> <<ProductItem(row, loaded.val)>> \o rest.val]
             ELSE rest

\* search_products after its guard: `if pubkey:` chooses the statement
SearchProductsData(table, query, pubkey) ==
    LET found == IF Truthy(pubkey)
                 THEN OrderByCreatedAtDesc(SqlSelect(table,
                          {r \in BagToSet(table) :
                              r.kind = KindProduct /\ r.pubkey = pubkey[1]}))
                 ELSE SelectKind(table, KindProduct)
    IN  {ScanProducts(rows, StrLower(Chars[query])) : rows \in found}

\* the loop of list_products over the rows of the page: as in list_profiles
RECURSIVE ScanListProducts(_)
ScanListProducts(rows) ==
    IF rows = <<>> THEN [ok |-> TRUE, val |-> <<>>]
    ELSE LET row == Head(rows)
             loaded == JsonLoads(row.content)
             rest == ScanListProducts(Tail(rows))
         IN  IF ~loaded.ok THEN rest
             ELSE IF loaded.val = None THEN [ok |-> FALSE, val |-> "TypeError"]
             ELSE IF ~rest.ok THEN rest
             ELSE [ok |-> TRUE, val |-> <<ProductItem(row, loaded.val)>> \o rest.val]

\* list_products after its guard
ListProductsData(table, limit, offset) ==
    {ScanListProducts(Slice(rows, limit, offset)) : rows \in SelectKind(table, KindProduct)}

(***************************************************************************)
(* The chat service: _deduplicate_profiles and the search branches of       *)
(* call_function.                                                           *)
(***************************************************************************)
\* profile[key].lower().strip()
KeyText(profile, key) == StrStrip(StrLower(Chars[profile[key]]))

\* duplicate_key of a profile: display_name, else name, else website, else
\* the pubkey; the empty key is falsy
DuplicateKey(profile) ==
    IF DictGet(profile, "display_name", "") # "" THEN KeyText(profile, "display_name")
    ELSE IF DictGet(profile, "name", "") # "" THEN KeyText(profile, "name")
    ELSE IF DictGet(profile, "website", "") # "" THEN KeyText(profile, "website")
    ELSE Chars[DictGet(profile, "pubkey", "")]

\* the first loop: profile_groups, a dict, keeps its keys in the order of
\* their insertion; a profile with a falsy key joins no group
RECURSIVE GroupProfiles(_, _)
GroupProfiles(profiles, profile_groups) ==
    IF profiles = <<>> THEN profile_groups
    ELSE LET profile == Head(profiles)
             duplicate_key == DuplicateKey(profile)
             at == {i \in DOMAIN profile_groups : profile_groups[i].key = duplicate_key}
         IN  GroupProfiles(Tail(profiles),
                 IF duplicate_key = <<>> THEN profile_groups
                 ELSE IF at = {}
                      THEN Append(profile_groups,
                                  [key |-> duplicate_key, group |-> <<profile>>])
                 ELSE [i \in DOMAIN profile_groups |->
                          IF i \in at
                          THEN [profile_groups[i] EXCEPT !.group = Append(@, profile)]
                          ELSE profile_groups[i]])

\* p.get("environment")
Environment(p) == DictGet(p, "environment", "")

\* a variant of the choice that takes the first profile of the group
PreferredProfileFirst(group) == group[1]

\* the choice within a group: the group's only profile, else the first
\* production profile, else the first that is neither production nor demo,
\* else the first demo profile
PreferredProfile(group) ==
    LET production_profiles == SelectSeq(group, LAMBDA p : Environment(p) = "production")
        demo_profiles == SelectSeq(group, LAMBDA p : Environment(p) = "demo")
        other_profiles ==
            SelectSeq(group, LAMBDA p : Environment(p) \notin {"production", "demo"})
    IN  IF Len(group) = 1 THEN group[1]
        ELSE IF production_profiles # <<>> THEN production_profiles[1]
        ELSE IF other_profiles # <<>> THEN other_profiles[1]
        ELSE IF demo_profiles # <<>> THEN demo_profiles[1]
        ELSE group[1]

DeduplicateProfiles(profiles) ==
    LET profile_groups == GroupProfiles(profiles, <<>>)
    IN  [i \in DOMAIN profile_groups |-> PreferredProfile(profile_groups[i].group)]

\* call_function for "search_profiles" and "search_business_profiles": the
\* search, the deduplication, then [:limit]; an exception of the search
\* becomes a result with success False
FunctionNames == {"search_profiles", "search_business_profiles"}
CallFunctionData(table, function_name, query, business_type, limit) ==
    LET found == IF function_name = "search_profiles"
                 THEN SearchProfilesData(table, query)
                 ELSE SearchBusinessProfilesData(table, query, business_type)
    IN  {IF outcome.ok
         THEN LET limited_profiles == Slice(DeduplicateProfiles(outcome.val), limit, 0)
              IN  [success |-> TRUE, count |-> Len(limited_profiles),
                   profiles |-> limited_profiles]
         ELSE [success |-> FALSE, error |-> outcome.val] : outcome \in found}

(***************************************************************************)
(* The URIs get_resource_data is given.                                     *)
(***************************************************************************)
Slash == <<"/">>
ResourceUri(pubkey, resource_type) ==
    Chars["nostr://"] \o Chars[pubkey] \o Slash \o Chars[resource_type]
ProfileUri(pubkey) == ResourceUri(pubkey, "profile")
CatalogUri(pubkey) == ResourceUri(pubkey, "catalog")
ProductUri(pubkey, d) == ResourceUri(pubkey, "product") \o Slash \o Chars[d]
StallsUri(pubkey) == ResourceUri(pubkey, "stalls")
StallUri(pubkey, d) == ResourceUri(pubkey, "stall") \o Slash \o Chars[d]

Discriminators == {"p", "p/q", ""}

\* fewer than two segments, or a resource type that is not recognized
InvalidUris ==
    {Chars["nostr://"] \o Chars["A"], Chars["A"], Chars[""],
     ResourceUri("A", "invalid"), ResourceUri("A", "product"),
     ResourceUri("A", "stall")}

ValidUris ==
    {ProfileUri(k) : k \in Pubkeys} \cup {CatalogUri(k) : k \in Pubkeys}
        \cup {ProductUri(k, d) : k \in Pubkeys, d \in Discriminators}
        \cup {StallsUri(k) : k \in Pubkeys}
        \cup {StallUri(k, d) : k \in Pubkeys, d \in Discriminators}

Uris == ValidUris \cup InvalidUris

\* the URIs and row queries the readers of the model are called with
ReadUris ==
    {ProfileUri("A"), CatalogUri("A"), ProductUri("A", "p"), ProductUri("A", "p/q"),
     ProductUri("A", ""), ProductUri("B", "p"), ResourceUri("A", "invalid")}

ReadRows ==
    {<<KindProfile, "A", None>>, <<KindProduct, "A", Some("p")>>,
     <<KindProduct, "A", Some("")>>, <<KindProduct, "B", Some("p/q")>>}

(***************************************************************************)
(* State.                                                                   *)
(***************************************************************************)
VARIABLES
    conn,             \* Database._conn is an open connection
    events,           \* the events table as the connection sees it
    task,             \* where each coroutine is: "idle", or between the
                      \* statement and the commit of its operation
    last,             \* the step taken last: the operation and its outcome
    newest,           \* history: of the calls applied to events, those with
                      \* the maximum created_at of their identity key
    refresh,          \* the refresh cycle of the coordinator: its working
                      \* set and its position
    service           \* the process around the store: the shared instance,
                      \* the refresh task, the relay client, where the
                      \* callers of refresh_database and stop_refresh_task are

vars == <<conn, events, task, last, newest, refresh, service>>

\* no refresh cycle is running, and none has run
NoRefresh ==
    [at |-> "idle", server |-> "", fetched |-> {}, pending |-> {}, attempted |-> {},
     current |-> <<>>, profile_count |-> 0]

\* the callers of refresh_database: the task of refresh_loop, and a caller
\* outside it (the initial refresh at startup, POST /refresh, the refresh
\* tool)
Callers == {"loop", "manual"}

\* the clients NostrClient.create makes in a run
MaxClients == 2

\* the searches of one cycle: one by the MCP server; one for each business
\* type by the database service (six in the code, two here: one place
\* between two searches)
SearchesPerCycle(server) == IF server = "mcp" THEN 1 ELSE 2

\* the process before start_refresh_task: the store is initialized, no task,
\* no client
NoService ==
    [server |-> "", shared_db |-> FALSE, databases |-> 0, refresh_task |-> "none", cancel |-> FALSE,
     nostr_client |-> 0, clients |-> <<>>,
     at |-> [p \in Callers |-> IF p = "loop" THEN "none" ELSE "idle"],
     searches |-> [p \in Callers |-> 0],
     pending |-> [p \in Callers |-> {}],
     wrote |-> [p \in Callers |-> FALSE],
     stop |-> "idle", closing |-> 0, torn |-> FALSE]

\* `last` after an operation returned v, raised exc, or executed its
\* statement and awaits its commit; `what` tells of an upsert its identity
\* key and what the statement did to the table
\* (val is headed by what kind of value follows: the operation whose result
\* it is, "raise" or "execute")
Return(op, v) == [op |-> op, at |-> "return", val |-> <<op, v>>]
Raise(op, exc) == [op |-> op, at |-> "raise", val |-> <<"raise", exc>>]
Executed(op, what) == [op |-> op, at |-> "execute", val |-> <<"execute", what>>]

\* `last` after get_resource_data(arg) returned v
Resolved(arg, v) ==
    [op |-> "get_resource_data", at |-> "return",
     val |-> <<"get_resource_data", v>>, arg |-> arg]

\* what a statement did: the contract's inserted | updated | rejected
UpsertEffect(before, after) ==
    IF BagCardinality(after) > BagCardinality(before) THEN "inserted"
    ELSE IF after # before THEN "updated"
    ELSE "rejected"

\* the history after the call c is applied
NewestAfter(hist, c) ==
    LET same == {w \in hist : IdentityKey(w) = IdentityKey(c)}
    IN  IF \E w \in same : w.created_at > c.created_at THEN hist
        ELSE {w \in hist : w \notin same \/ w.created_at = c.created_at} \cup {c}

Init ==
    /\ conn = FALSE
    /\ events = EmptyBag
    /\ task = [t \in Tasks |-> "idle"]
    /\ last = Return("__init__", None)
    /\ newest = {}
    /\ refresh = NoRefresh
    /\ service = NoService

\* Database.initialize: open the connection, CREATE TABLE IF NOT EXISTS.
\* Every caller initializes a Database it has just constructed or closed.
Initialize ==
    /\ ~conn
    /\ conn' = TRUE
    /\ last' = Return("initialize", None)
    /\ UNCHANGED <<events, task, newest>>
    /\ UNCHANGED <<refresh, service>>

\* Database.close.  It is awaited at shutdown, once the refresh task has
\* been awaited and no request is being served: no operation is between its
\* statement and its commit, so the connection holds nothing uncommitted
\* and the file keeps every row.
Close ==
    /\ \A t \in Tasks : task[t] = "idle"
    /\ conn' = FALSE
    /\ last' = Return("close", None)
    /\ UNCHANGED <<events, task, newest>>
    /\ UNCHANGED <<refresh, service>>

\* upsert_event up to its first suspension: the guard, the d tag, the
\* statement.
UpsertEvent(t, c) ==
    /\ task[t] = "idle"
    /\ IF ~conn
       THEN /\ last' = Raise("upsert_event", "DatabaseError")
            /\ UNCHANGED <<conn, events, task, newest>>
       ELSE /\ events' = UpsertStatement(events, c)
            /\ BagCardinality(events') <= MaxRows
            /\ newest' = NewestAfter(newest, c)
            /\ task' = [task EXCEPT ![t] = "upsert_commit"]
            /\ last' = Executed("upsert_event",
                                 <<IdentityKey(c), UpsertEffect(events, events')>>)
            /\ UNCHANGED conn
    /\ UNCHANGED <<refresh, service>>

\* upsert_event from `await self._conn.commit()` on: return True.
UpsertCommit(t) ==
    /\ task[t] = "upsert_commit"
    /\ task' = [task EXCEPT ![t] = "idle"]
    /\ last' = Return("upsert_event", TRUE)
    /\ UNCHANGED <<conn, events, newest>>
    /\ UNCHANGED <<refresh, service>>

\* clear_all_data without `if not self._conn: raise DatabaseError`
ClearAllDataNoGuard(t) ==
    /\ task[t] = "idle"
    /\ events' = EmptyBag
    /\ newest' = {}
    /\ task' = [task EXCEPT ![t] = "clear_commit"]
    /\ last' = Executed("clear_all_data", <<>>)
    /\ UNCHANGED conn
    /\ UNCHANGED <<refresh, service>>

\* a variant of clear_all_data whose statement is DELETE FROM events WHERE
\* kind = 0
ClearAllDataProfiles(t) ==
    /\ task[t] = "idle"
    /\ IF ~conn
       THEN /\ last' = Raise("clear_all_data", "DatabaseError")
            /\ UNCHANGED <<conn, events, task, newest>>
       ELSE /\ events' = SqlSelect(events, {r \in BagToSet(events) : r.kind # KindProfile})
            /\ newest' = {}
            /\ task' = [task EXCEPT ![t] = "clear_commit"]
            /\ last' = Executed("clear_all_data", <<>>)
            /\ UNCHANGED conn
    /\ UNCHANGED <<refresh, service>>

\* clear_all_data up to its first suspension: the guard, DELETE FROM events.
ClearAllData(t) ==
    /\ task[t] = "idle"
    /\ IF ~conn
       THEN /\ last' = Raise("clear_all_data", "DatabaseError")
            /\ UNCHANGED <<conn, events, task, newest>>
       ELSE /\ events' = EmptyBag
            /\ newest' = {}
            /\ task' = [task EXCEPT ![t] = "clear_commit"]
            /\ last' = Executed("clear_all_data", <<>>)
            /\ UNCHANGED conn
    /\ UNCHANGED <<refresh, service>>

\* clear_all_data from `await self._conn.commit()` on: return True.
ClearCommit(t) ==
    /\ task[t] = "clear_commit"
    /\ task' = [task EXCEPT ![t] = "idle"]
    /\ last' = Return("clear_all_data", TRUE)
    /\ UNCHANGED <<conn, events, newest>>
    /\ UNCHANGED <<refresh, service>>

GetResourceData(resource_uri) ==
    /\ IF ~conn
       THEN last' = Raise("get_resource_data", "DatabaseError")
       ELSE \E v \in ResourceData(events, resource_uri) :
                last' = Resolved(resource_uri, v)
    /\ UNCHANGED <<conn, events, task, newest>>
    /\ UNCHANGED <<refresh, service>>

GetResourceRows(kind, pubkey, d_tag) ==
    /\ IF ~conn
       THEN last' = Raise("get_resource_rows", "DatabaseError")
       ELSE \E v \in ResourceRows(events, kind, pubkey, d_tag) :
                last' = Return("get_resource_rows", v)
    /\ UNCHANGED <<conn, events, task, newest>>
    /\ UNCHANGED <<refresh, service>>

\* get_business_types: a constant list, with no guard on the connection
GetBusinessTypes ==
    /\ last' = Return("get_business_types", BusinessTypes)
    /\ UNCHANGED <<conn, events, task, newest>>
    /\ UNCHANGED <<refresh, service>>

Next ==
    \/ Initialize
    \/ Close
    \/ \E t \in Tasks, c \in Calls : UpsertEvent(t, c)
    \/ \E t \in Tasks : UpsertCommit(t)
    \/ \E t \in Tasks : ClearAllData(t)
    \/ \E t \in Tasks : ClearCommit(t)
    \/ \E u \in ReadUris : GetResourceData(u)
    \/ \E q \in ReadRows : GetResourceRows(q[1], q[2], q[3])
    \/ GetBusinessTypes

Spec == Init /\ [][Next]_vars

(***************************************************************************)
(* The searches, over a store that one caller fills: upsert_event runs to   *)
(* its return, and the searches read what it has stored.                    *)
(***************************************************************************)
TagT == <<"t", "Hat">>
TagL == <<"L", "business.type">>
TagRetail == <<"l", "retail">>
TagService == <<"l", "service">>

\* the profiles (kind 0) stored: content and tags
ProfileCards ==
    {<<ContentRed, <<TagT>> >>,
     <<ContentRed, <<TagL, TagRetail>> >>,
     <<ContentAnn, <<TagRetail>> >>,
     <<ContentAnn, <<TagL, TagRetail, TagService>> >>,
     <<ContentAnnProd, <<>> >>,
     <<ContentAnnDemo, <<>> >>,
     <<ContentBad, <<>> >>,
     <<ContentNull, <<TagL, TagRetail>> >>}

\* the products (kind 30018) stored: content and tags
ProductCards ==
    {<<ContentShirt, <<TagDP>> >>,
     <<ContentCap, <<TagDP>> >>,
     <<ContentCap, <<TagDPQ>> >>,
     <<ContentBad, <<TagDP>> >>,
     <<ContentNull, <<TagDP>> >>}

SearchCalls ==
    {[id |-> "e1", pubkey |-> k, kind |-> KindProfile, content |-> card[1],
      created_at |-> ts, tags |-> card[2]] :
        card \in ProfileCards, k \in Pubkeys, ts \in Times}
    \cup
    {[id |-> "e2", pubkey |-> k, kind |-> KindProduct, content |-> card[1],
      created_at |-> ts, tags |-> card[2]] :
        card \in ProductCards, k \in Pubkeys, ts \in Times}

\* the queries the profile searches are given
ProfileQueries == {"Red, zz", "zz tee", "ED", "rio", "mug", "hat", "zz", "ann", ""}

\* `last` after a search or list with arguments arg ended with outcome
Searched(op, arg, outcome) ==
    [op |-> op,
     at |-> IF outcome.ok THEN "return" ELSE "raise",
     val |-> IF outcome.ok THEN <<op, outcome.val>> ELSE <<"raise", outcome.val>>,
     arg |-> arg]

SearchInit ==
    /\ conn = TRUE
    /\ events = EmptyBag
    /\ task = [t \in Tasks |-> "idle"]
    /\ last = Return("initialize", None)
    /\ newest = {}
    /\ refresh = NoRefresh
    /\ service = NoService

\* upsert_event from its call to `return True`, no other coroutine running
\* (the history of calls is not kept here: no property of the searches
\* reads it)
Upsert(c) ==
    /\ events' = UpsertStatement(events, c)
    /\ BagCardinality(events') <= MaxRows
    /\ last' = Return("upsert_event", TRUE)
    /\ UNCHANGED <<conn, task, newest>>
    /\ UNCHANGED <<refresh, service>>

SearchProfiles(query) ==
    /\ \E outcome \in SearchProfilesData(events, query) :
          last' = Searched("search_profiles", query, outcome)
    /\ UNCHANGED <<conn, events, task, newest>>
    /\ UNCHANGED <<refresh, service>>

\* the category filters of the model
BusinessTypeArgs == {"retail", "service"}

SearchBusinessProfiles(query, business_type) ==
    /\ \E outcome \in SearchBusinessProfilesData(events, query, Some(business_type)) :
          last' = Searched("search_business_profiles", <<query, business_type>>, outcome)
    /\ UNCHANGED <<conn, events, task, newest>>
    /\ UNCHANGED <<refresh, service>>

\* GET /search of the database service: the search, then
\* profiles[offset:offset + limit]; any exception becomes an HTTPException
SearchPageData(table, query, business_type, limit, offset) ==
    LET found == IF Truthy(business_type)
                 THEN SearchBusinessProfilesData(table, query, business_type)
                 ELSE SearchProfilesData(table, query)
    IN  {IF outcome.ok THEN [ok |-> TRUE, val |-> Slice(outcome.val, limit, offset)]
         ELSE [ok |-> FALSE, val |-> "HTTPException"] : outcome \in found}

\* the pages asked for
Limits == 0..MaxRows
Offsets == 0..MaxRows

ListProfiles(limit, offset) ==
    /\ \E outcome \in ListProfilesData(events, limit, offset) :
          last' = Searched("list_profiles", <<limit, offset>>, outcome)
    /\ UNCHANGED <<conn, events, task, newest>>
    /\ UNCHANGED <<refresh, service>>

SearchPage(query, business_type, limit, offset) ==
    /\ \E outcome \in SearchPageData(events, query, business_type, limit, offset) :
          last' = Searched("search", <<query, business_type, limit, offset>>, outcome)
    /\ UNCHANGED <<conn, events, task, newest>>
    /\ UNCHANGED <<refresh, service>>

\* ChatService.call_function with arguments query, business_type, limit
CallFunction(function_name, query, business_type, limit) ==
    /\ \E result \in CallFunctionData(events, function_name, query, business_type, limit) :
          last' = Searched("call_function", <<function_name, query, business_type, limit>>,
                           [ok |-> TRUE, val |-> result])
    /\ UNCHANGED <<conn, events, task, newest>>
    /\ UNCHANGED <<refresh, service>>

\* the queries and the merchant filters search_products is given
ProductQueries == {"hir", "CAP", "zz", ""}
PubkeyArgs == {None, Some("A"), Some("")}

SearchProducts(query, pubkey) ==
    /\ \E outcome \in SearchProductsData(events, query, pubkey) :
          last' = Searched("search_products", <<query, pubkey>>, outcome)
    /\ UNCHANGED <<conn, events, task, newest>>
    /\ UNCHANGED <<refresh, service>>

SearchNext ==
    \/ \E c \in SearchCalls : Upsert(c)
    \/ \E query \in {"CAP", "zz"}, pubkey \in {None, Some("A")} :
          SearchProducts(query, pubkey)
    \/ \E function_name \in FunctionNames, limit \in {1, MaxRows} :
          CallFunction(function_name, "ann", Some("retail"), limit)
    \/ \E offset \in {0, 1} : ListProfiles(1, offset)
    \/ \E business_type \in {None, Some("retail")} : SearchPage("ann", business_type, 1, 1)
    \/ \E query \in ProfileQueries : SearchProfiles(query)
    \/ \E query \in {"zz tee", ""}, business_type \in BusinessTypeArgs :
          SearchBusinessProfiles(query, business_type)

SearchSpec == SearchInit /\ [][SearchNext]_vars

(***************************************************************************)
(* The refresh coordinator: refresh_database of the MCP server and of the   *)
(* database service, and Database.upsert_profile.  One cycle fetches a set  *)
(* of profiles and works through it; it suspends at get_resource_data and   *)
(* at upsert_profile, where another caller's upsert_event may run.  The     *)
(* connection is open throughout: close is awaited after the refresh task.  *)
(***************************************************************************)
\* hashlib.sha256(f"{public_key}:0:{created_at}").hexdigest(): one id for
\* each public key and created_at
Sha256Hex(public_key, created_at) ==
    IF public_key = "A" THEN <<"a1", "a2", "a3", "a4">>[created_at]
    ELSE <<"b1", "b2", "b3", "b4">>[created_at]

\* the servers that run a coordinator
Servers == {"mcp", "database_service"}

\* what a fetched Profile does when the loop reads it: nothing wrong; a
\* getter raises (to_dict, get_name, ...: malformed data); or
\* get_public_key("hex") raises
Faults == {"none", "getter", "key"}

\* the profiles the relays return: Profile objects of the SDK
Names == {"Ann", "Red"}
FetchedProfiles ==
    {[public_key |-> "A", name |-> n, created_at |-> ts, fault |-> "none"] :
        n \in Names, ts \in Times}
    \cup {[public_key |-> "B", name |-> "Ann", created_at |-> 1, fault |-> f] :
            f \in Faults}
    \cup {[public_key |-> "", name |-> "Ann", created_at |-> 1, fault |-> "none"]}

\* the size of the working set
MaxFetched == 2
WorkingSets == {ps \in SUBSET FetchedProfiles : Cardinality(ps) \in 1..MaxFetched}

\* time.time() when upsert_profile is not given last_updated
Clock == Times

\* the call of upsert_event that upsert_profile makes; last_updated is None
\* when profile_data has no such key
UpsertProfileCall(public_key, name, created_at, last_updated, now) ==
    LET stamp == IF last_updated # None THEN last_updated[1] ELSE now
    IN  [id |-> Sha256Hex(public_key, stamp), pubkey |-> public_key,
         kind |-> KindProfile, content |-> JsonDumpsProfile(name, created_at),
         created_at |-> stamp,
         tags |-> <<<<"L", "business.type">>, <<"l", "retail">>>>]

\* existing_profile: what get_resource_data returns for the profile URI of
\* the public key
ExistingProfiles(table, pubkey) == ResourceData(table, ProfileUri(pubkey))

\* should_update of the MCP server: by the timestamps
ShouldUpdateMcp(profile, existing_profile) ==
    IF existing_profile = None THEN TRUE
    ELSE LET existing_created_at == DictGet(existing_profile[1], "created_at", 0)
         IN  IF profile.created_at = existing_created_at THEN FALSE
             ELSE IF profile.created_at <= existing_created_at THEN FALSE
             ELSE TRUE

\* fields_to_check of the database service, and the values the fetched
\* profile has for them
FieldsToCheck == {"name", "display_name", "about", "picture", "website", "nip05", "lud16"}
FetchedField(profile, field) == IF field = "name" THEN profile.name ELSE ""

\* profile.get_environment() of a fetched profile: Ann's is the production
\* profile, Red's the demo profile.  refresh_database puts it in
\* profile_data["environment"]; content_fields of upsert_profile has no
\* such key.
GetEnvironment(profile) == IF profile.name = "Ann" THEN "production" ELSE "demo"

\* should_update of the database service: by the fields, whatever the
\* timestamps
ShouldUpdateFields(profile, existing_profile) ==
    IF existing_profile = None THEN TRUE
    ELSE \E field \in FieldsToCheck :
            \/ field \notin DOMAIN existing_profile[1]
            \/ existing_profile[1][field] # FetchedField(profile, field)

ShouldUpdate(server, profile, existing_profile) ==
    IF server = "mcp" THEN ShouldUpdateMcp(profile, existing_profile)
    ELSE ShouldUpdateFields(profile, existing_profile)

\* `last` after a step of the cycle: what it did, and for which value
Refreshed(what, arg) ==
    [op |-> "refresh_database", at |-> "execute", val |-> <<"execute", what>>, arg |-> arg]

\* refresh_database up to its loop: the relays are asked, and the profiles
\* they return are the working set; when the fetch raises the cycle is over
RefreshFetch(server, profiles) ==
    /\ refresh.at = "idle"
    /\ refresh' = [at |-> "loop", server |-> server, fetched |-> profiles,
                   pending |-> profiles, attempted |-> {}, current |-> <<>>,
                   profile_count |-> 0]
    /\ last' = Refreshed("fetched", <<>>)
    /\ UNCHANGED <<conn, events, task, newest, service>>

RefreshFetchFails(server) ==
    /\ refresh.at = "idle"
    /\ refresh' = [NoRefresh EXCEPT !.server = server]
    /\ last' = IF server = "mcp" THEN Return("refresh_database", None)
               ELSE Raise("refresh_database", "Exception")
    /\ UNCHANGED <<conn, events, task, newest, service>>

\* the cycle after an exception left the loop: the MCP server logs it and
\* returns, the database service raises it again
RefreshAborted(server) ==
    IF server = "mcp" THEN Return("refresh_database", None)
    ELSE Raise("refresh_database", "Exception")

\* the handler of the loop, `except Exception as e: logger.error(f"...")`:
\* its message calls profile.get_public_key("hex") once more
HandlerRaises(profile) == profile.fault = "key"

\* one turn of the loop up to should_update: the getters, then
\* get_resource_data; an exception goes to the handler
RefreshCheck(profile) ==
    /\ refresh.at = "loop"
    /\ profile \in refresh.pending
    /\ LET taken == [refresh EXCEPT !.pending = @ \ {profile},
                                    !.attempted = @ \cup {profile}]
       IN  IF profile.fault # "none"
           THEN IF HandlerRaises(profile)
                THEN /\ refresh' = [taken EXCEPT !.at = "idle"]
                     /\ last' = RefreshAborted(refresh.server)
                ELSE /\ refresh' = taken
                     /\ last' = Refreshed("logged", <<>>)
           ELSE \E existing_profile \in ExistingProfiles(events, profile.public_key) :
                   IF ShouldUpdate(refresh.server, profile, existing_profile)
                   THEN /\ refresh' = [taken EXCEPT !.at = "write",
                                                    !.current = <<profile>>]
                        /\ last' = Refreshed("update", existing_profile)
                   ELSE /\ refresh' = taken
                        /\ last' = Refreshed("skipped", existing_profile)
    /\ UNCHANGED <<conn, events, task, newest, service>>

\* the rest of the turn: upsert_profile, which returns False for a profile
\* without public key and else stores a kind 0 event; the MCP server passes
\* last_updated, the database service leaves the created_at to the clock
RefreshWrite(now) ==
    /\ refresh.at = "write"
    /\ LET profile == refresh.current[1]
           last_updated == IF refresh.server = "mcp" THEN Some(profile.created_at)
                           ELSE None
           call == UpsertProfileCall(profile.public_key, profile.name,
                                     profile.created_at, last_updated, now)
           back == [refresh EXCEPT !.at = "loop", !.current = <<>>]
       IN  IF profile.public_key = ""
           THEN /\ refresh' = back
                /\ last' = Return("upsert_profile", FALSE)
                /\ UNCHANGED events
           ELSE /\ events' = UpsertStatement(events, call)
                /\ BagCardinality(events') <= MaxRows
                /\ refresh' = [back EXCEPT !.profile_count = @ + 1]
                /\ last' = Return("upsert_profile", TRUE)
    /\ UNCHANGED <<conn, task, newest, service>>

\* the loop is over: refresh_database returns
RefreshReturn ==
    /\ refresh.at = "loop"
    /\ refresh.pending = {}
    /\ refresh' = [refresh EXCEPT !.at = "idle"]
    /\ last' = Return("refresh_database",
                      IF refresh.server = "mcp" THEN None ELSE Some(refresh.profile_count))
    /\ UNCHANGED <<conn, events, task, newest, service>>

\* the events another caller stores meanwhile
RefreshCalls ==
    {[id |-> "e1", pubkey |-> "A", kind |-> KindProfile, content |-> ContentAnn,
      created_at |-> ts, tags |-> <<>>] : ts \in Times}

RefreshNext ==
    \/ \E c \in RefreshCalls : Upsert(c)
    \/ \E server \in Servers, profiles \in WorkingSets : RefreshFetch(server, profiles)
    \/ \E server \in Servers : RefreshFetchFails(server)
    \/ \E profile \in FetchedProfiles : RefreshCheck(profile)
    \/ \E now \in Clock : RefreshWrite(now)
    \/ RefreshReturn

RefreshSpec == SearchInit /\ [][RefreshNext]_vars

(***************************************************************************)
(* The life of the coordinator: start_refresh_task and its refresh_loop,    *)
(* refresh_database called by the loop and by a caller outside it, and      *)
(* stop_refresh_task.  A coroutine is followed from one suspension to the   *)
(* next; Task.cancel() has the task's next step raise CancelledError,       *)
(* which no `except Exception` catches.                                     *)
(***************************************************************************)
\* the profiles the relays return to a cycle: none or one
ServiceProfiles ==
    {[public_key |-> "A", name |-> n, created_at |-> 1, fault |-> "none"] : n \in Names}
ServiceWorkingSets == {{}} \cup {{profile} : profile \in ServiceProfiles}

\* `last` after a step of the coordinator's life: what happened, to whom
Serviced(op, what, p) ==
    [op |-> op, at |-> "execute", val |-> <<"execute", what>>, arg |-> p]

\* where a caller is once its refresh_database is over: the loop sleeps
\* REFRESH_INTERVAL after a return and 60 seconds after an exception; the
\* MCP server's refresh_database logs every exception and returns
AfterRefresh(server, p, raised) ==
    IF p = "manual" THEN "idle"
    ELSE IF raised /\ server # "mcp" THEN "sleep60"
    ELSE "sleep"

\* a refresh_loop whose `except Exception` ends the loop
AfterFailureBreaks(server, p) == IF p = "manual" THEN "idle" ELSE "ended"

\* where a caller is once connecting or fetching raised
AfterFailure(server, p) == AfterRefresh(server, p, TRUE)

\* the task is done once the loop has ended
TaskAfter(refresh_task, p, at) ==
    IF p = "loop" /\ at = "ended" THEN "done" ELSE refresh_task

\* start_refresh_task: `if refresh_task is None or refresh_task.done()`
StartRefreshTask ==
    /\ service.stop = "idle"
    /\ service.refresh_task \in {"none", "done"}
    /\ service' = [service EXCEPT !.refresh_task = "pending", !.cancel = FALSE,
                                  !.at["loop"] = "start"]
    /\ last' = Return("start_refresh_task", None)
    /\ UNCHANGED <<conn, events, task, newest, refresh>>

\* the steps of the loop's task wait for a CancelledError that is due
Runs(p) == p = "loop" => ~service.cancel

\* refresh_database up to its first suspension: NostrClient.create when
\* there is no client, else the first search
RefreshDatabase(p) ==
    /\ Runs(p)
    /\ IF p = "loop" THEN service.at[p] \in {"start", "sleep", "sleep60"}
       ELSE service.at[p] = "idle" /\ service.stop = "idle"
    /\ service' = [service EXCEPT
                      !.at[p] = IF service.nostr_client = 0 THEN "create" ELSE "fetch",
                      !.searches[p] = SearchesPerCycle(service.server),
                      !.pending[p] = {}, !.wrote[p] = FALSE]
    /\ last' = Serviced("refresh_database", "started", p)
    /\ UNCHANGED <<conn, events, task, newest, refresh>>

\* NostrClient.create returns: the client is assigned to nostr_client
CreateClient(p) ==
    /\ Runs(p)
    /\ service.at[p] = "create"
    /\ Len(service.clients) < MaxClients
    /\ service' = [service EXCEPT !.clients = Append(@, "open"),
                                  !.nostr_client = Len(service.clients) + 1,
                                  !.at[p] = "fetch"]
    /\ last' = Serviced("refresh_database", "connected", p)
    /\ UNCHANGED <<conn, events, task, newest, refresh>>

\* the cycle of p is abandoned: refresh_database raises (the MCP server:
\* logs and returns)
Abandoned(p, what) ==
    /\ service' = [service EXCEPT
                      !.at[p] = AfterFailure(service.server, p),
                      !.refresh_task = TaskAfter(@, p, AfterFailure(service.server, p)),
                      !.searches[p] = 0, !.pending[p] = {}]
    /\ last' = Serviced("refresh_database", what, p)

\* NostrClient.create raises
CreateFails(p) ==
    /\ Runs(p)
    /\ service.at[p] = "create"
    /\ Abandoned(p, "connect_failed")
    /\ UNCHANGED <<conn, events, task, newest, refresh>>

\* where a caller is once a turn of its loop is over: another turn, or
\* refresh_database returns
AfterTurn(server, p, rest) == IF rest = {} THEN AfterRefresh(server, p, FALSE) ELSE "loop"

\* async_get_merchants returns.  The next search is called on whatever
\* nostr_client is by then; after the last search the loop over the
\* profiles begins with get_resource_data.
Fetch(p, profiles) ==
    /\ Runs(p)
    /\ service.at[p] = "fetch"
    /\ IF service.searches[p] > 1
       THEN IF service.nostr_client = 0
            THEN Abandoned(p, "fetch_failed")
            ELSE /\ service' = [service EXCEPT !.searches[p] = @ - 1]
                 /\ last' = Serviced("refresh_database", "searched", p)
       ELSE /\ service' = [service EXCEPT
                             !.searches[p] = 0, !.pending[p] = profiles,
                             !.at[p] = AfterTurn(service.server, p, profiles)]
            /\ last' = Serviced("refresh_database", "fetched", p)
    /\ UNCHANGED <<conn, events, task, newest, refresh>>

\* async_get_merchants raises
FetchFails(p) ==
    /\ Runs(p)
    /\ service.at[p] = "fetch"
    /\ Abandoned(p, "fetch_failed")
    /\ UNCHANGED <<conn, events, task, newest, refresh>>

\* one turn of the loop from the return of get_resource_data to the
\* statement of upsert_event
TurnCheck(p, profile, now) ==
    /\ Runs(p)
    /\ service.at[p] = "loop"
    /\ profile \in service.pending[p]
    /\ LET rest == service.pending[p] \ {profile}
           last_updated == IF service.server = "mcp" THEN Some(profile.created_at)
                           ELSE None
           call == UpsertProfileCall(profile.public_key, profile.name,
                                     profile.created_at, last_updated, now)
       IN  \E existing_profile \in ExistingProfiles(events, profile.public_key) :
              IF ShouldUpdate(service.server, profile, existing_profile)
              THEN /\ events' = UpsertStatement(events, call)
                   /\ BagCardinality(events') <= MaxRows
                   /\ service' = [service EXCEPT !.pending[p] = rest,
                                                 !.at[p] = "upsert_commit",
                                                 !.wrote[p] = TRUE]
                   /\ last' = Serviced("refresh_database", "executed", p)
              ELSE /\ service' = [service EXCEPT
                                     !.pending[p] = rest,
                                     !.at[p] = AfterTurn(service.server, p, rest)]
                   /\ last' = Serviced("refresh_database", "skipped", p)
                   /\ UNCHANGED events
    /\ UNCHANGED <<conn, task, newest, refresh>>

\* the rest of the turn: the commit of upsert_event, profile_count += 1
TurnCommit(p) ==
    /\ Runs(p)
    /\ service.at[p] = "upsert_commit"
    /\ service' = [service EXCEPT
                      !.at[p] = AfterTurn(service.server, p, service.pending[p])]
    /\ last' = Serviced("refresh_database", "committed", p)
    /\ UNCHANGED <<conn, events, task, newest, refresh>>

\* the CancelledError reaches the task at the await it is suspended in,
\* and refresh_loop breaks (or, in its handler's sleep, lets it through).
\* In upsert_event the task waits for the statement or for the commit:
\* what the connection's thread was handed it still runs, so the commit
\* has been issued or it has not.
CancelDelivered(committed) ==
    /\ service.cancel
    /\ service.at["loop"] \notin {"none", "ended"}
    /\ service.at["loop"] # "upsert_commit" => committed
    /\ service' = [service EXCEPT !.cancel = FALSE, !.at["loop"] = "ended",
                                  !.refresh_task = "done",
                                  !.searches["loop"] = 0, !.pending["loop"] = {},
                                  !.torn = @ \/ ~committed]
    /\ last' = Serviced("refresh_loop", "cancelled", "loop")
    /\ UNCHANGED <<conn, events, task, newest, refresh>>

\* stop_refresh_task from `if nostr_client:` on, up to the await of close
StopClient(stopping) ==
    IF stopping.nostr_client # 0
    THEN [stopping EXCEPT !.stop = "close", !.closing = stopping.nostr_client]
    ELSE [stopping EXCEPT !.stop = "returned"]

\* a stop_refresh_task that neither cancels nor awaits the task
StopRefreshTaskNoCancel ==
    /\ service.stop = "idle"
    /\ service' = StopClient(service)
    /\ last' = Serviced("stop_refresh_task", "called", "stop")
    /\ UNCHANGED <<conn, events, task, newest, refresh>>

\* stop_refresh_task up to its first suspension: it cancels a task that is
\* not done and awaits it
StopRefreshTask ==
    /\ service.stop = "idle"
    /\ IF service.refresh_task = "pending"
       THEN service' = [service EXCEPT !.cancel = TRUE, !.stop = "await_task"]
       ELSE service' = StopClient(service)
    /\ last' = Serviced("stop_refresh_task", "called", "stop")
    /\ UNCHANGED <<conn, events, task, newest, refresh>>

\* `await refresh_task` is over: refresh_task = None
StopAwaited ==
    /\ service.stop = "await_task"
    /\ service.refresh_task = "done"
    /\ service' = StopClient([service EXCEPT !.refresh_task = "none"])
    /\ last' = Serviced("stop_refresh_task", "awaited", "stop")
    /\ UNCHANGED <<conn, events, task, newest, refresh>>

\* `await nostr_client.close()` is over.  When close raises, the database
\* service logs a warning and clears the reference in its finally; the MCP
\* server lets the exception out and keeps the reference.
StopClosed(closed) ==
    /\ service.stop = "close"
    /\ service' =
          IF closed
          THEN [service EXCEPT !.clients[service.closing] = "closed",
                               !.nostr_client = 0, !.stop = "returned"]
          ELSE IF service.server = "mcp"
          THEN [service EXCEPT !.clients[service.closing] = "close_failed",
                               !.stop = "raised"]
          ELSE [service EXCEPT !.clients[service.closing] = "close_failed",
                               !.nostr_client = 0, !.stop = "returned"]
    /\ last' = Serviced("stop_refresh_task", IF closed THEN "closed" ELSE "close_failed",
                        "stop")
    /\ UNCHANGED <<conn, events, task, newest, refresh>>

ServiceInit ==
    /\ conn = TRUE
    /\ events = EmptyBag
    /\ task = [t \in Tasks |-> "idle"]
    /\ last = Return("initialize", None)
    /\ newest = {}
    /\ refresh = NoRefresh
    /\ \E server \in Servers : service = [NoService EXCEPT !.server = server,
                                                          !.shared_db = TRUE,
                                                          !.databases = 1]

ServiceNext ==
    \/ StartRefreshTask
    \/ \E p \in Callers : RefreshDatabase(p)
    \/ \E p \in Callers : CreateClient(p)
    \/ \E p \in Callers : CreateFails(p)
    \/ \E p \in Callers, profiles \in ServiceWorkingSets : Fetch(p, profiles)
    \/ \E p \in Callers : FetchFails(p)
    \/ \E p \in Callers, profile \in ServiceProfiles, now \in Clock :
          TurnCheck(p, profile, now)
    \/ \E p \in Callers : TurnCommit(p)
    \/ \E committed \in BOOLEAN : CancelDelivered(committed)
    \/ StopRefreshTask
    \/ StopAwaited
    \/ \E closed \in BOOLEAN : StopClosed(closed)

ServiceSpec == ServiceInit /\ [][ServiceNext]_vars

\* the event loop runs a task that can run: the timer of the sleep fires,
\* an awaited call ends, a CancelledError that is due is raised
ServiceFairness ==
    /\ WF_vars(RefreshDatabase("loop"))
    /\ WF_vars(\E committed \in BOOLEAN : CancelDelivered(committed))

ServiceLiveSpec == ServiceSpec /\ ServiceFairness

(***************************************************************************)
(* _deduplicate_profiles on its own: the lists it is given.                 *)
(***************************************************************************)
\* the profiles of a search result, by the fields the deduplication reads
DedupProfiles ==
    {[pubkey |-> "A", display_name |-> "Ann", environment |-> "production"],
     [pubkey |-> "B", name |-> " ann ", environment |-> "demo"],
     [pubkey |-> "B", name |-> "Red"],
     [pubkey |-> "A", display_name |-> " ", name |-> "Red"],
     [pubkey |-> "A", website |-> "x"],
     [pubkey |-> "B"]}

\* the length of a search result
MaxFound == 3
FoundLists == UNION {[1..n -> DedupProfiles] : n \in 0..MaxFound}

DedupInit ==
    /\ conn = TRUE
    /\ events = EmptyBag
    /\ task = [t \in Tasks |-> "idle"]
    /\ newest = {}
    /\ refresh = NoRefresh
    /\ service = NoService
    /\ \E profiles \in FoundLists : last = Return("search_profiles", profiles)

\* call_function hands the list the search returned to
\* _deduplicate_profiles
Deduplicate ==
    /\ last.op = "search_profiles"
    /\ last' = [op |-> "_deduplicate_profiles", at |-> "return",
                val |-> <<"_deduplicate_profiles", DeduplicateProfiles(last.val[2])>>,
                arg |-> last.val[2]]
    /\ UNCHANGED <<conn, events, task, newest, refresh, service>>

DedupNext == Deduplicate

DedupSpec == DedupInit /\ [][DedupNext]_vars

(***************************************************************************)
(* The ingestion worker: NostrIngestWorker._process_event, given the event  *)
(* dicts of the subscription.                                               *)
(***************************************************************************)
\* the fields of an Event
EventFields == {"id", "pubkey", "kind", "content", "created_at", "tags"}

\* the events the relays deliver: events with every field, and the same
\* with one field missing
WholeEvents ==
    {[id |-> "e1", pubkey |-> pubkey, kind |-> kind, content |-> ContentAnn,
      created_at |-> ts, tags |-> <<>>] :
        pubkey \in Pubkeys, kind \in {KindProfile, KindProduct}, ts \in Times}
InboundEvents ==
    {[f \in fields |-> event[f]] :
        event \in WholeEvents,
        fields \in {EventFields} \cup {EventFields \ {f} : f \in EventFields}}

\* the pubkey a worker monitors: None for all
WorkerPubkeys == {None, Some("A")}

\* `last` after _process_event(event): whether it called upsert_event
Processed(event, called) ==
    [op |-> "_process_event", at |-> "return", val |-> <<"_process_event", called>>,
     arg |-> event]

\* _process_event: event.get with its defaults, the test of id, pubkey and
\* content, the worker's pubkey, the kind, then upsert_event
ProcessEvent(worker_pubkey, event) ==
    LET event_id == DictGet(event, "id", "")
        pubkey == DictGet(event, "pubkey", "")
        kind == DictGet(event, "kind", 0)
        content == DictGet(event, "content", "")
        created_at == DictGet(event, "created_at", 0)
        tags == DictGet(event, "tags", <<>>)
        call == [id |-> event_id, pubkey |-> pubkey, kind |-> kind,
                 content |-> content, created_at |-> created_at, tags |-> tags]
    IN  /\ IF event_id = "" \/ pubkey = "" \/ content = ""
           THEN /\ last' = Processed(event, FALSE)
                /\ UNCHANGED events
           ELSE IF Truthy(worker_pubkey) /\ pubkey # worker_pubkey[1]
           THEN /\ last' = Processed(event, FALSE)
                /\ UNCHANGED events
           ELSE IF kind # KindProfile
           THEN /\ last' = Processed(event, FALSE)
                /\ UNCHANGED events
           ELSE /\ events' = UpsertStatement(events, call)
                /\ BagCardinality(events') <= MaxRows
                /\ last' = Processed(event, TRUE)
        /\ UNCHANGED <<conn, task, newest, refresh, service>>

IngestNext ==
    \E worker_pubkey \in WorkerPubkeys, event \in InboundEvents :
        ProcessEvent(worker_pubkey, event)

IngestSpec == SearchInit /\ [][IngestNext]_vars

(***************************************************************************)
(* The shared store: get_shared_database of the shared_database modules and *)
(* initialize_database of the database service, called by coroutines that   *)
(* then use the instance they were given.                                   *)
(***************************************************************************)
\* get_shared_database up to its first suspension.  With no instance yet:
\* `_shared_db = Database(path)`, then `await _shared_db.initialize()`,
\* which suspends in aiosqlite.connect.  With an instance: it is returned
\* as it is.
GetSharedDatabase(t) ==
    /\ task[t] = "idle"
    /\ IF ~service.shared_db
       THEN /\ service' = [service EXCEPT !.shared_db = TRUE, !.databases = @ + 1]
            /\ task' = [task EXCEPT ![t] = "connect"]
            /\ last' = Executed("get_shared_database", t)
       ELSE /\ task' = [task EXCEPT ![t] = "holds"]
            /\ last' = Return("get_shared_database", t)
            /\ UNCHANGED service
    /\ UNCHANGED <<conn, events, newest, refresh>>

\* Database.initialize from the return of aiosqlite.connect: `self._conn`
\* is set, CREATE TABLE IF NOT EXISTS is executed
InitializeConnected(t) ==
    /\ task[t] = "connect"
    /\ conn' = TRUE
    /\ task' = [task EXCEPT ![t] = "create_table"]
    /\ last' = Executed("initialize", t)
    /\ UNCHANGED <<events, newest, refresh, service>>

\* the commit of initialize; get_shared_database returns the instance
InitializeCommitted(t) ==
    /\ task[t] = "create_table"
    /\ task' = [task EXCEPT ![t] = "holds"]
    /\ last' = Return("get_shared_database", t)
    /\ UNCHANGED <<conn, events, newest, refresh, service>>

\* the first operation of a caller on the instance it was given: an
\* upsert_event, from its call to its return
FirstOperation(t, c) ==
    /\ task[t] = "holds"
    /\ task' = [task EXCEPT ![t] = "idle"]
    /\ IF ~conn
       THEN /\ last' = Raise("upsert_event", "DatabaseError")
            /\ UNCHANGED events
       ELSE /\ events' = UpsertStatement(events, c)
            /\ BagCardinality(events') <= MaxRows
            /\ last' = Return("upsert_event", TRUE)
    /\ UNCHANGED <<conn, newest, refresh, service>>

SharedNext ==
    \/ \E t \in Tasks : GetSharedDatabase(t)
    \/ \E t \in Tasks : InitializeConnected(t)
    \/ \E t \in Tasks : InitializeCommitted(t)
    \/ \E t \in Tasks, c \in Calls : FirstOperation(t, c)

SharedSpec == Init /\ [][SharedNext]_vars

(***************************************************************************)
(* Properties of the event store.                                           *)
(***************************************************************************)
\* The identity key of a stored row, from its columns: a NULL d_tag is one
\* value of the discriminator.
RowKey(r) == <<r.kind, r.pubkey, r.d_tag>>

\* The identity key of a stored row, from the tags it stores, as a call's.
RowIdentityKey(r) == <<r.kind, r.pubkey, ExtractDTag(JsonLoadsTags(r.tags))>>

\* the rows stored for an identity key
RowsOf(table, key) ==
    SqlSelect(table, {r \in BagToSet(table) : RowIdentityKey(r) = key})

\* the row has the id, content, created_at and tags of the call
RowIsCall(r, c) ==
    /\ r.id = c.id
    /\ r.content = c.content
    /\ r.created_at = c.created_at
    /\ r.tags = JsonDumpsTags(c.tags)

\* one row is stored for the key, and it is that of a call with the
\* maximum created_at among the calls applied for the key
OneNewestRow(table, hist, key) ==
    /\ BagCardinality(RowsOf(table, key)) = 1
    /\ \A r \in BagToSet(RowsOf(table, key)) :
          \E w \in hist : IdentityKey(w) = key /\ RowIsCall(r, w)

\* C1 (as claimed).  Replaceability: after any sequence of upsert_event calls
\* sharing an identity key, with or without a discriminator, the stored row
\* is the row of the call with the maximum created_at, whatever the order.
C1_Replaceability ==
    \A w \in newest : OneNewestRow(events, newest, IdentityKey(w))

\* C2 (as claimed).  At most one row exists per identity key (kind, author,
\* discriminator), a NULL discriminator counting as one value.
C2_OneRowPerKey ==
    \A r \in BagToSet(events) :
        BagCardinality(
            SqlSelect(events, {x \in BagToSet(events) : RowKey(x) = RowKey(r)})) = 1

\* C3 (as claimed).  Equal-timestamp stability: an upsert_event whose key has
\* a stored row with the same created_at changes no row and adds none, with
\* and without a discriminator.
C3_EqualTimestampStable ==
    [][\A t \in Tasks, c \in Calls :
          (/\ conn
           /\ UpsertEvent(t, c)
           /\ \E r \in BagToSet(RowsOf(events, IdentityKey(c))) :
                 r.created_at = c.created_at)
          => events' = events]_vars

\* the step executes the statement of some upsert_event
StatementStep == last'.op = "upsert_event" /\ last'.at = "execute"

\* the step is the statement of upsert_event(c), executed by task t while
\* connected
StatementOf(t, c) ==
    /\ conn
    /\ StatementStep
    /\ last'.val[2][1] = IdentityKey(c)
    /\ UpsertEvent(t, c)

\* the tuple get_resource_rows returns for the row of a call
RowTuple(c) == <<c.id, c.content, c.created_at, JsonDumpsTags(c.tags)>>

\* C4.  For a key with a non-empty d tag: an upsert_event with a strictly
\* greater created_at replaces the stored row, one with a smaller created_at
\* leaves it unchanged, and get_resource_rows(kind, author, d) returns
\* exactly one row after each call.
C4_ParameterizedUpsert ==
    [][StatementStep => \A t \in Tasks, c \in Calls :
          (Truthy(ExtractDTag(c.tags)) /\ StatementOf(t, c))
          => LET d == ExtractDTag(c.tags)
                 before == ResourceRows(events, c.kind, c.pubkey, d)
                 after == ResourceRows(events', c.kind, c.pubkey, d)
             IN  /\ \A rows \in after : Len(rows) = 1
                 /\ \A rows \in before :
                       /\ rows = <<>> => after = {<<RowTuple(c)>>}
                       /\ (rows # <<>> /\ rows[1][3] < c.created_at)
                             => after = {<<RowTuple(c)>>}
                       /\ (rows # <<>> /\ rows[1][3] > c.created_at)
                             => after = {rows}]_vars

\* C4 happens: product "p" of author A was replaced by a newer event.
C4_Witness ==
    /\ last = Executed("upsert_event", <<<<KindProduct, "A", Some("p")>>, "updated">>)
    /\ ResourceRows(events, KindProduct, "A", Some("p"))
          = {<<RowTuple([id |-> "e2", pubkey |-> "A", kind |-> KindProduct,
                         content |-> ContentShirt, created_at |-> 2,
                         tags |-> <<TagDP, TagTX>>])>>}

\* C5 (as claimed).  Discriminator partitioning: an upsert_event for
\* (kind, author, d1) changes no row of (kind, author, d2) for another
\* discriminator d2, and upserts with the same (kind, author, d) act on one
\* single row: after each, one row is stored for the key.
C5_DiscriminatorPartitioning ==
    [][StatementStep => \A t \in Tasks, c \in Calls :
          (ExtractDTag(c.tags) # None /\ StatementOf(t, c))
          => /\ \A key \in IdentityKeys :
                   (/\ key[1] = c.kind
                    /\ key[2] = c.pubkey
                    /\ key[3] # None
                    /\ key[3] # ExtractDTag(c.tags))
                   => RowsOf(events', key) = RowsOf(events, key)
             /\ BagCardinality(RowsOf(events', IdentityKey(c))) = 1]_vars

\* C6.  No partial overwrite: whatever a step does, every row of the table
\* after it is a row of the table before it or, in all four mutable fields,
\* the row of the call whose statement the step executed.
C6_NoPartialOverwrite ==
    [][\A r \in BagToSet(events') :
          \/ r \in BagToSet(events)
          \/ \E t \in Tasks, c \in Calls :
                RowIsCall(r, c) /\ StatementOf(t, c)]_vars

\* C6 happens: a statement replaced a row while another upsert_event was
\* between its statement and its commit.
C6_Witness ==
    /\ last.op = "upsert_event"
    /\ last.at = "execute"
    /\ last.val[2][2] = "updated"
    /\ \A t \in Tasks : task[t] = "upsert_commit"

\* C7 (as claimed).  Two concurrent upsert_event calls for one identity key:
\* when the second executes its statement while the first, which has just
\* executed its own, has not yet committed, the table holds what a serial
\* run leaves: one row for the key, of the larger created_at.
C7_ConcurrentUpserts ==
    [][StatementStep => \A t \in Tasks, c \in Calls :
          (/\ last.op = "upsert_event"
           /\ last.at = "execute"
           /\ last.val[2][1] = IdentityKey(c)
           /\ StatementOf(t, c))
          => OneNewestRow(events', newest', IdentityKey(c))]_vars

\* the operations that read or write the events table
TableOps == {"upsert_event", "clear_all_data", "get_resource_data", "get_resource_rows"}

\* the step is an operation of the store other than initialize and close
OperationStep == last'.op \notin {"__init__", "initialize", "close"}

\* C8 (as claimed).  Every public operation of the store invoked while the
\* connection is not open raises DatabaseError, returns no result, and leaves
\* the stored rows unchanged.
C8_EveryOperationRaises ==
    [][(~conn /\ OperationStep)
          => last' = Raise(last'.op, "DatabaseError") /\ events' = events]_vars

\* C8 (amended).  Every operation that reads or writes the events table,
\* invoked while the connection is not open, raises DatabaseError and leaves
\* the stored rows unchanged; get_business_types, which has no guard, returns
\* its constant list.
C8_TableOperationsRaise ==
    [][(~conn /\ OperationStep)
          => /\ events' = events
             /\ last'.op \in TableOps
                   => last' = Raise(last'.op, "DatabaseError")
             /\ last'.op \notin TableOps
                   => last' = Return("get_business_types", BusinessTypes)]_vars

\* C8 happens: after close, with rows stored, upsert_event raised.
C8_Witness ==
    /\ ~conn
    /\ events # EmptyBag
    /\ last = Raise("upsert_event", "DatabaseError")

\* the products upserted last for (author, d): the calls of the history
Upserted(pubkey, d) ==
    {w \in newest : IdentityKey(w) = <<KindProduct, pubkey, Some(d)>>}

\* C9 (as claimed).  URI round-trip: for every author and discriminator d,
\* once a product with d tag d is upserted, get_resource_data of
\* nostr://{author}/product/{d} returns the content stored, and for a d never
\* upserted it returns not-found (None).
C9_UriRoundTrip ==
    conn => \A pubkey \in Pubkeys, d \in Discriminators :
               LET data == ResourceData(events, ProductUri(pubkey, d))
               IN  IF Upserted(pubkey, d) = {} THEN data = {None}
                   ELSE data \subseteq {Some(JsonLoads(w.content).val) :
                                           w \in Upserted(pubkey, d)}

\* the URIs of a single object (profile, product, stall) that match no row
\* of the table
NotFoundUris(table) ==
    {ProfileUri(k) : k \in {k \in Pubkeys :
        RowsOf(table, <<KindProfile, k, None>>) = EmptyBag}}
    \cup {ProductUri(k, "p") : k \in {k \in Pubkeys :
        RowsOf(table, <<KindProduct, k, Some("p")>>) = EmptyBag}}
    \cup {StallUri(k, "p") : k \in {k \in Pubkeys :
        RowsOf(table, <<KindStall, k, Some("p")>>) = EmptyBag}}

\* the URIs of a list (catalog, stalls) that match no row of the table
EmptyListUris(table) ==
    {CatalogUri(k) : k \in {k \in Pubkeys :
        \A r \in BagToSet(table) : ~(r.kind = KindProduct /\ r.pubkey = k)}}
    \cup {StallsUri(k) : k \in {k \in Pubkeys :
        \A r \in BagToSet(table) : ~(r.kind = KindStall /\ r.pubkey = k)}}

\* C10 (as claimed).  get_resource_data gives an invalid request an outcome
\* the caller can tell apart from that of a well-formed request matching no
\* row.
C10_InvalidDistinct ==
    conn => \A u \in InvalidUris, v \in NotFoundUris(events) \cup EmptyListUris(events) :
               ResourceData(events, u) \cap ResourceData(events, v) = {}

\* C10 (amended).  get_resource_data returns None for an invalid request,
\* which is also what it returns for a profile, product or stall URI that
\* matches no row; only a catalog or stalls URI that matches no row is
\* answered otherwise, with an empty list.
C10_InvalidIsNone ==
    conn => /\ \A u \in InvalidUris : ResourceData(events, u) = {None}
            /\ \A v \in NotFoundUris(events) : ResourceData(events, v) = {None}
            /\ \A v \in EmptyListUris(events) :
                  ResourceData(events, v) \in {{Some([products |-> <<>>])},
                                               {Some([stalls |-> <<>>])}}

\* C10 happens: with rows stored, an invalid request was answered None.
C10_Witness ==
    /\ conn
    /\ events # EmptyBag
    /\ last = Resolved(ResourceUri("A", "invalid"), None)

\* the products of an author in the history, one call for each discriminator
\* upserted, in every order that is descending in created_at
CurrentProducts(hist, pubkey) ==
    LET mine == {w \in hist : w.kind = KindProduct /\ w.pubkey = pubkey}
        keys == {IdentityKey(w) : w \in mine}
    IN  {s \in [1..Cardinality(keys) -> mine] :
            /\ \A i, j \in DOMAIN s : i # j => IdentityKey(s[i]) # IdentityKey(s[j])
            /\ \A i, j \in DOMAIN s : i < j => s[i].created_at >= s[j].created_at}

\* C12 (as claimed).  After any sequence of upserts the catalog of an author
\* holds one product for each discriminator the author has upserted, with
\* the content of the upsert of maximum created_at, in descending order of
\* created_at, and nothing else.
C12_CatalogCurrent ==
    conn => \A pubkey \in Pubkeys :
               \A data \in ResourceData(events, CatalogUri(pubkey)) :
                  \E s \in CurrentProducts(newest, pubkey) :
                     data = Some([products |->
                                     [i \in DOMAIN s |-> JsonLoads(s[i].content).val]])

\* the list as a bag of its elements
SeqToBag(seq) ==
    [x \in {seq[i] : i \in DOMAIN seq} |-> Cardinality({i \in DOMAIN seq : seq[i] = x})]

\* the terms of a query: the maximal pieces of the lower-cased query that
\* hold no comma and no blank
TermsOf(query) ==
    LET s == StrLower(Chars[query])
        sep(c) == c = "," \/ c = " "
    IN  {SubSeq(s, i, j) : <<i, j>> \in
            {ij \in (1..Len(s)) \X (1..Len(s)) :
                /\ ij[1] <= ij[2]
                /\ \A k \in ij[1]..ij[2] : ~sep(s[k])
                /\ (ij[1] = 1 \/ sep(s[ij[1] - 1]))
                /\ (ij[2] = Len(s) \/ sep(s[ij[2] + 1]))}}

\* the lower-cased searchable fields of a stored profile: none when its
\* content is no JSON object
SearchableFields(row) ==
    LET loaded == JsonLoads(row.content)
        tags == JsonLoadsTags(row.tags)
    IN  IF ~loaded.ok \/ loaded.val = None THEN {}
        ELSE LET d == loaded.val
                 keys == {"name", "display_name", "about", "nip05", "country",
                          "city", "state", "zip_code", "street"} \cap DOMAIN d
                 hashtags == DictGet(d, "hashtags", <<>>)
             IN  {StrLower(Chars[d[k]]) : k \in keys}
                 \cup {StrLower(Chars[hashtags[i]]) : i \in DOMAIN hashtags}
                 \cup {StrLower(Chars[tags[i][2]]) :
                          i \in {j \in DOMAIN tags : Len(tags[j]) >= 2 /\ tags[j][1] = "t"}}

\* a term of the query is a substring of a searchable field of the profile
MatchesQuery(row, query) ==
    \E term \in TermsOf(query), field \in SearchableFields(row) :
        StrContains(field, term)

\* the stored profiles that satisfy keep, as the dicts a search returns
ProfilesWhere(table, rows) ==
    LET hits == {r \in BagToSet(table) \cap rows : r.kind = KindProfile}
        item(r) == ProfileItem(r, JsonLoads(r.content).val)
    IN  [x \in {item(r) : r \in hits} |->
            BagCardinality(SqlSelect(table, {r \in hits : item(r) = x}))]

\* C13 (as claimed).  search_profiles(query) returns a stored profile if and
\* only if a term of the query (lower-cased, split on blanks and commas) is
\* a substring of one of its lower-cased searchable fields.
C13_SearchProfilesAnyTerm ==
    \A query \in ProfileQueries :
        \A outcome \in SearchProfilesData(events, query) :
            /\ outcome.ok
            /\ SeqToBag(outcome.val)
                  = ProfilesWhere(events, {r \in BagToSet(events) : MatchesQuery(r, query)})

\* C14 (as claimed).  search_business_profiles(query, business_type) returns
\* a profile if and only if it matches the query as in search_profiles (a
\* term of the query is a substring of a searchable field) and its projected
\* category, the first recognized "l" tag, equals business_type.
C14_BusinessSearchFilter ==
    \A query \in ProfileQueries, business_type \in BusinessTypeArgs :
        \A outcome \in SearchBusinessProfilesData(events, query, Some(business_type)) :
            /\ outcome.ok
            /\ SeqToBag(outcome.val)
                  = ProfilesWhere(events,
                       {r \in BagToSet(events) :
                           /\ MatchesQuery(r, query)
                           /\ ExtractBusinessType(JsonLoadsTags(r.tags))
                                 = Some(business_type)})

\* C15 (as claimed).  Pagination is a final slice: for every limit and
\* offset the page of list_profiles, and of the /search endpoint, is the
\* elements [offset, offset + limit) of a complete result list (the one the
\* operation gives with no limit), so a row passed over never shortens a page.
C15_PaginationFinalSlice ==
    \A limit \in Limits, offset \in Offsets :
        /\ \A page \in ListProfilesData(events, limit, offset) :
              /\ page.ok
              /\ \E all \in ListProfilesData(events, BagCardinality(events), 0) :
                    all.ok /\ page.val = Slice(all.val, limit, offset)
        /\ \A query \in {"ann", "zz"}, business_type \in {None, Some("retail")} :
              \A page \in SearchPageData(events, query, business_type, limit, offset) :
                 /\ page.ok
                 /\ \E all \in SearchPageData(events, query, business_type,
                                              BagCardinality(events), 0) :
                       all.ok /\ page.val = Slice(all.val, limit, offset)

\* the profiles of a list that bear the derived key, in the order of the list
GroupOf(profiles, key) == SelectSeq(profiles, LAMBDA p : DuplicateKey(p) = key)

\* the first profile of a group that satisfies the flag, if there is one
Flagged(group, flags) == SelectSeq(group, LAMBDA p : Environment(p) \in flags)

\* the results of a profile search that succeeded, before deduplication
FoundProfiles ==
    {outcome.val : outcome \in
        {o \in UNION {SearchProfilesData(events, query) : query \in {"ann", ""}} : o.ok}}

ProductsWhere(table, rows) ==
    LET hits == {r \in BagToSet(table) \cap rows : r.kind = KindProduct}
        item(r) == ProductItem(r, JsonLoads(r.content).val)
    IN  [x \in {item(r) : r \in hits} |->
            BagCardinality(SqlSelect(table, {r \in hits : item(r) = x}))]

\* the lower-cased query is a substring of the lower-cased name or
\* description of the row, whose content is a JSON object
NameOrDescriptionHas(row, query) ==
    LET loaded == JsonLoads(row.content)
    IN  /\ loaded.ok /\ loaded.val # None
        /\ \E key \in {"name", "description"} \cap DOMAIN loaded.val :
              StrContains(StrLower(Chars[loaded.val[key]]), StrLower(Chars[query]))

\* C18 (as claimed).  search_products(query, pubkey) returns exactly the
\* stored products, of the given pubkey when one is supplied, whose name or
\* description contains the query as a case-insensitive substring, and the
\* empty list when there is none.
C18_SearchProductsExact ==
    \A query \in ProductQueries, pubkey \in PubkeyArgs :
        \A outcome \in SearchProductsData(events, query, pubkey) :
            /\ outcome.ok
            /\ SeqToBag(outcome.val)
                  = ProductsWhere(events,
                       {r \in BagToSet(events) :
                           /\ pubkey # None => r.pubkey = pubkey[1]
                           /\ NameOrDescriptionHas(r, query)})

\* the table without the row r
WithoutRow(table, r) == [x \in BagToSet(table) \ {r} |-> CopiesIn(x, table)]

\* the rows of the table whose content json.loads rejects
CorruptRows(table) == SqlSelect(table, {r \in BagToSet(table) : ~JsonLoads(r.content).ok})

\* every search, list, catalog and stalls operation gives on table a what it
\* gives on table b, and raises nothing
SameScans(a, b) ==
    /\ \A query \in {"ann", ""} :
          /\ SearchProfilesData(a, query) = SearchProfilesData(b, query)
          /\ \A outcome \in SearchProfilesData(a, query) : outcome.ok
    /\ \A limit \in {1, MaxRows} :
          /\ ListProfilesData(a, limit, 0) = ListProfilesData(b, limit, 0)
          /\ \A outcome \in ListProfilesData(a, limit, 0) : outcome.ok
    /\ \A query \in {"CAP", ""} :
          /\ SearchProductsData(a, query, None) = SearchProductsData(b, query, None)
          /\ \A outcome \in SearchProductsData(a, query, None) : outcome.ok
    /\ \A pubkey \in Pubkeys :
          /\ ResourceData(a, CatalogUri(pubkey)) = ResourceData(b, CatalogUri(pubkey))
          /\ ResourceData(a, StallsUri(pubkey)) = ResourceData(b, StallsUri(pubkey))

\* C17 (as claimed).  A single stored row whose content cannot be parsed never
\* aborts a scan: every search, list and catalog/stalls operation completes
\* without raising and returns what it would return were the row absent.
C17_CorruptRowSkipped ==
    \A r \in BagToSet(events) :
        (BagCardinality(CorruptRows(events)) = 1 /\ BagIn(r, CorruptRows(events)))
            => SameScans(events, WithoutRow(events, r))

\* the step is the statement of clear_all_data, DELETE FROM events
ClearStep == last'.op = "clear_all_data" /\ last'.at = "execute"

\* the URIs of the model: of single objects, and of lists
ObjectUris ==
    {ProfileUri(k) : k \in Pubkeys}
    \cup {ProductUri(k, d) : k \in Pubkeys, d \in Discriminators}
    \cup {StallUri(k, d) : k \in Pubkeys, d \in Discriminators}
ListUris == {CatalogUri(k) : k \in Pubkeys} \cup {StallsUri(k) : k \in Pubkeys}

\* an empty catalog and an empty list of stalls
EmptyLists == {Some([products |-> <<>>]), Some([stalls |-> <<>>])}

\* the URIs that resolve to data on the table: an object, or a list that
\* is not empty
DataUris(table) ==
    {u \in ObjectUris \cup ListUris :
        \E v \in ResourceData(table, u) : v # None /\ v \notin EmptyLists}

\* every search and every list gives the empty list on the table
EmptySearches(table) ==
    LET empty == {[ok |-> TRUE, val |-> <<>>]}
    IN  /\ \A query \in ProfileQueries :
              /\ SearchProfilesData(table, query) = empty
              /\ \A business_type \in BusinessTypeArgs :
                    SearchBusinessProfilesData(table, query, Some(business_type)) = empty
        /\ \A query \in ProductQueries, pubkey \in PubkeyArgs :
              SearchProductsData(table, query, pubkey) = empty
        /\ \A limit \in Limits, offset \in Offsets :
              /\ ListProfilesData(table, limit, offset) = empty
              /\ ListProductsData(table, limit, offset) = empty

WriteAttempt == last'.op = "refresh_database" /\ last'.at = "execute"
                /\ last'.val[2] = "update"

\* the step is the write of upsert_profile
WriteStep == last'.op = "upsert_profile" /\ last'.val[2] = TRUE

\* the created_at of the profiles stored for the public key: of the rows
\* get_resource_data may return
StoredCreatedAt(table, pubkey) ==
    {e[1].created_at : e \in ExistingProfiles(table, pubkey) \ {None}}

\* the timestamps of the records behind the profiles stored for the public
\* key: the created_at inside the content of a profile the coordinator
\* wrote, that of the row for any other
StoredRecordAt(table, pubkey) ==
    {IF \E e \in ProfileTexts : e[3] = s[1].content
     THEN JsonLoadsProfile(s[1].content).created_at
     ELSE s[1].created_at :
        s \in SelectAll(table, KindProfile, Chars[pubkey]) \ {<<>>}}

\* C19 (as claimed).  The coordinator writes monotonically: a fetched
\* profile whose timestamp is not strictly newer than the created_at of the
\* stored profile causes no write attempt, and no write of a cycle puts in
\* the place of a stored profile a record older than or equal to it.
C19_MonotonicRefresh ==
    [][/\ WriteAttempt =>
             \A at \in StoredCreatedAt(events, refresh'.current[1].public_key) :
                refresh'.current[1].created_at > at
       /\ WriteStep =>
             \A before \in StoredRecordAt(events, refresh.current[1].public_key),
                after \in StoredRecordAt(events', refresh.current[1].public_key) :
                   after >= before]_vars

\* the record of a cycle that ended is the whole working set
CycleOver == refresh.at = "idle" /\ refresh.fetched # {}

\* C20 (as claimed).  In a refresh cycle a failure with one fetched record
\* never keeps the others from being processed: when the cycle is over,
\* every record of the working set has been attempted.
C20_EveryRecordAttempted ==
    CycleOver => refresh.attempted = refresh.fetched

(***************************************************************************)
(* Properties of the coordinator's life.                                    *)
(***************************************************************************)
\* the outcomes of a cycle that could not connect to, or fetch from, the
\* relays
FetchFailures == {"connect_failed", "fetch_failed"}

\* the loop's cycle has just been abandoned for such a failure
LoopCycleFailed ==
    /\ last.op = "refresh_database"
    /\ last.arg = "loop"
    /\ last.val[2] \in FetchFailures

\* the step that abandons it
LoopCycleFails ==
    /\ last'.op = "refresh_database"
    /\ last'.arg = "loop"
    /\ last'.val[2] \in FetchFailures

\* the loop's task is in a cycle, or its loop is over
LoopInCycle == service.at["loop"] \in {"create", "fetch", "loop", "upsert_commit"}
LoopOver == service.at["loop"] = "ended"

\* C21.  When connecting to or fetching from the relays fails in a cycle of
\* the refresh loop, that cycle has written nothing to the store and the
\* failing step writes nothing, the task stays pending with its timer
\* armed, and a later cycle begins unless the task is cancelled first; the
\* task of the loop is done only after a cancellation.
C21_FailedCycleAbandoned ==
    /\ [][LoopCycleFails =>
            /\ events' = events
            /\ ~service.wrote["loop"]
            /\ service'.refresh_task = "pending"
            /\ service'.at["loop"] \in {"sleep", "sleep60"}]_vars
    /\ [][service.refresh_task = "pending" /\ service'.refresh_task # "pending"
            => service.cancel]_vars
    /\ (LoopCycleFailed ~> (LoopInCycle \/ LoopOver))

\* a cycle of the loop failed after an earlier cycle had stored a profile
C21_Witness == LoopCycleFailed /\ events # EmptyBag /\ service.refresh_task = "pending"

\* the step in which stop_refresh_task returns
StopReturns == service.stop # "returned" /\ service'.stop = "returned"

\* the task of refresh_loop is pending: created and not done
TaskPending(sv) ==
    sv.refresh_task = "pending" \/ sv.at["loop"] \notin {"none", "ended"}

LoopEnds == service.at["loop"] # "ended" /\ service'.at["loop"] = "ended"

\* C23 (as claimed).  The task of the refresh loop never ends between the
\* statement and the commit of an upsert of its cycle: a cancellation
\* takes effect elsewhere, and no statement of the loop is left without
\* its commit.
C23_WriteCompletes ==
    [][LoopEnds => service.at["loop"] # "upsert_commit" /\ ~service'.torn]_vars

(***************************************************************************)
(* Properties of the tag projection, the deduplication and the discriminator*)
(***************************************************************************)
\* the places of the recognized category tags in a tag list
RecognizedAt(tags) ==
    {i \in DOMAIN tags :
        Len(tags[i]) >= 2 /\ tags[i][1] = "l" /\ InBusinessTypes(tags[i][2])}

\* the category that comes first in the order of the list
FirstCategory(tags) ==
    IF RecognizedAt(tags) = {} THEN None
    ELSE Some(tags[CHOOSE i \in RecognizedAt(tags) :
                      \A j \in RecognizedAt(tags) : i <= j][2])

\* every profile of a result reports the first category of its tags
ProjectFirst(outcomes) ==
    \A outcome \in outcomes :
        outcome.ok =>
            \A i \in DOMAIN outcome.val :
                outcome.val[i]["business_type"] = FirstCategory(outcome.val[i]["tags"])

\* the profile that get_resource_data resolves reports the first category
\* of the tags of a stored row of that author and created_at
ResolveProjectsFirst ==
    \A pubkey \in Pubkeys :
        \A v \in ResourceData(events, ProfileUri(pubkey)) :
            v # None =>
                \E r \in BagToSet(events) :
                    /\ r.kind = KindProfile /\ r.pubkey = pubkey
                    /\ r.created_at = v[1]["created_at"]
                    /\ v[1]["business_type"] = FirstCategory(JsonLoadsTags(r.tags))

\* the readers other than search_business_profiles project the first match
C24_OtherReaders ==
    /\ ResolveProjectsFirst
    /\ \A query \in {"ann", ""} : ProjectFirst(SearchProfilesData(events, query))
    /\ ProjectFirst(ListProfilesData(events, MaxRows, 0))

\* C24 (as claimed).  When the stored tags of a profile hold several
\* recognized category tags, get_resource_data, search_profiles,
\* list_profiles and search_business_profiles all report the one that comes
\* first in the stored order.
C24_FirstMatchWins ==
    /\ C24_OtherReaders
    /\ \A business_type \in BusinessTypeArgs :
          ProjectFirst(SearchBusinessProfilesData(events, "", Some(business_type)))

\* the key a profile is grouped by: the first of display name, name and
\* website that it has, lower-cased and stripped, else its author key
DerivedKey(profile) ==
    LET has(k) == k \in DOMAIN profile /\ profile[k] # ""
        text(k) == StrStrip(StrLower(Chars[profile[k]]))
    IN  IF has("display_name") THEN text("display_name")
        ELSE IF has("name") THEN text("name")
        ELSE IF has("website") THEN text("website")
        ELSE Chars[profile["pubkey"]]

\* the keys of the profiles of a list
KeysOf(profiles) == {DerivedKey(profiles[i]) : i \in DOMAIN profiles}

\* the profiles of a list
ProfilesOf(profiles) == {profiles[i] : i \in DOMAIN profiles}

\* the output holds one profile of the input for each key of the input, and
\* every profile that shares its key with no other
KeepsEveryGroup(input, output) ==
    /\ ProfilesOf(output) \subseteq ProfilesOf(input)
    /\ Len(output) = Cardinality(KeysOf(input))
    /\ \A k \in KeysOf(input) :
          Cardinality({j \in DOMAIN output : DerivedKey(output[j]) = k}) = 1
    /\ \A i \in DOMAIN input :
          (\A j \in DOMAIN input : DerivedKey(input[j]) = DerivedKey(input[i]) => j = i)
              => input[i] \in ProfilesOf(output)

\* the claim for the lists whose profiles all have a key that is not empty
C25_NonEmptyKeys ==
    (last.op = "_deduplicate_profiles" /\ <<>> \notin KeysOf(last.arg))
        => KeepsEveryGroup(last.arg, last.val[2])

\* C25 (as claimed).  _deduplicate_profiles loses no group: its output
\* holds exactly one profile for each distinct key of its input (display
\* name, else name, else website, else author key), and a profile alone in
\* its group is returned.
C25_DedupKeepsEveryGroup ==
    last.op = "_deduplicate_profiles" => KeepsEveryGroup(last.arg, last.val[2])

\* the Event fields an inbound event lacks
MissingFields(event) == EventFields \ DOMAIN event

\* _process_event has just returned for an event that lacks one of fields
Rejects(fields) ==
    (last'.op = "_process_event" /\ MissingFields(last'.arg) \cap fields # {})
        => last'.val[2] = FALSE /\ events' = events

\* the claim for the fields _process_event tests
C26_TestedFields == [][Rejects({"id", "pubkey", "content"})]_vars

\* C26 (as claimed).  _process_event rejects an inbound event that lacks
\* any of id, pubkey, kind, content, created_at, tags: upsert_event is not
\* called for it and the store is unchanged.
C26_MissingFieldRejected == [][Rejects(EventFields)]_vars

\* the places of the d tags in a tag list
DTagsAt(tags) == {i \in DOMAIN tags : Len(tags[i]) >= 2 /\ tags[i][1] = "d"}

\* the discriminator of a tag list: the value of its first d tag, none
\* when it has no d tag
Discriminator(tags) ==
    IF DTagsAt(tags) = {} THEN None
    ELSE Some(tags[CHOOSE i \in DTagsAt(tags) : \A j \in DTagsAt(tags) : i <= j][2])

\* the row is stored under the discriminator of its tags
StoredUnderDiscriminator(r) == r.d_tag = Discriminator(JsonLoadsTags(r.tags))

\* the claim for the rows whose first d tag is not the empty string
C27_NonEmptyDiscriminator ==
    \A r \in BagToSet(events) :
        Discriminator(JsonLoadsTags(r.tags)) # Some("") => StoredUnderDiscriminator(r)

\* C27 (as claimed).  Every stored row has as d_tag the value of the first
\* d tag of its tags, whatever that value, and NULL only when its tags
\* hold no d tag.
C27_DiscriminatorStored ==
    \A r \in BagToSet(events) : StoredUnderDiscriminator(r)

(***************************************************************************)
(* Properties of the shared store and of the relay client.                  *)
(***************************************************************************)
\* the step in which get_shared_database returns the instance to a caller
InstanceReturned == last'.op = "get_shared_database" /\ last'.at = "return"

\* every caller is given the one instance
C28_OneInstance == [][InstanceReturned => service'.databases = 1]_vars

\* C28 (as claimed).  Whatever the interleaving of the callers of
\* get_shared_database, each is given the one Database instance, and the
\* instance it is given has an open connection, so that its first
\* operation does not raise the uninitialized-store error.
C28_SharedInitialized ==
    /\ [][InstanceReturned => service'.databases = 1 /\ conn']_vars
    /\ [][~(last'.at = "raise" /\ last'.val[2] = "DatabaseError")]_vars

\* the clients created on which close has not been awaited
OpenClients == {i \in DOMAIN service.clients : service.clients[i] = "open"}

\* C29 (as claimed).  At most one relay client exists at any time, and a
\* client that is not closed is the one nostr_client refers to, so that
\* stop_refresh_task will close it; this with refresh_database running in
\* the loop and in a manual refresh at once, and with a refresh still
\* running when stop_refresh_task clears the client.
C29_OneClient ==
    /\ Cardinality(OpenClients) <= 1
    /\ \A i \in OpenClients : service.nostr_client = i

\* a profile of a search result that upsert_profile stored: its content
\* has the fields of content_fields
StoredByCoordinator(item) == "namespace" \in DOMAIN item

\* C30 (as claimed).  A profile that the coordinator fetched with an
\* environment and stored through upsert_profile is returned by
\* search_profiles with that environment.
C30_EnvironmentSurvives ==
    \A query \in {"ann", "ED"} :
        \A outcome \in SearchProfilesData(events, query) :
            outcome.ok =>
                \A i \in DOMAIN outcome.val :
                    StoredByCoordinator(outcome.val[i]) =>
                        \E profile \in FetchedProfiles :
                            /\ profile.public_key = outcome.val[i]["pubkey"]
                            /\ profile.name = outcome.val[i]["name"]
                            /\ "environment" \in DOMAIN outcome.val[i]
                            /\ outcome.val[i]["environment"] = GetEnvironment(profile)

====
